---- MODULE Spec2Model ----
(***************************************************************************)
(* Model of the stats-metrics extraction engine of webpack-analyzer-mcp:   *)
(* WebpackAnalyzerServer.extractMetrics with its helpers                   *)
(* calculateChunkSize and getModuleType (specification Spec), and of the   *)
(* tool handlers of the server with the files they write and the external  *)
(* processes they start (specification SpecServer), of the cleanup on      *)
(* SIGINT and SIGTERM (specification SpecShutdown), and of resolvePath and *)
(* validatePath over a file system (specification SpecPaths).              *)
(*                                                                         *)
(* JavaScript values are tagged records: [t |-> "undefined"],              *)
(* [t |-> "null"], [t |-> "number", v |-> n], [t |-> "string", v |-> s],   *)
(* [t |-> "array", v |-> seq] and objects [t |-> "object", p1 |-> ...].    *)
(* A string is a sequence of one-character strings, so that extname,       *)
(* includes, slice, split and toLowerCase are computed, not assumed.       *)
(* An absent property reads as undefined, exactly as in the code, which    *)
(* only ever reads properties.  A thrown exception is the value Thrown.    *)
(***************************************************************************)
EXTENDS Integers, Sequences, FiniteSets, TLC

VARIABLES
  stats,    \* the stats document handed to the engine
  op,       \* the method whose call has returned, "none" before any call
  arg,      \* the chunk argument of a calculateChunkSize call
  result,   \* what the call returned (Thrown: it raised instead)
  calls,    \* the tool invocations of the server: handler position and locals
  files,    \* the temporary files the handlers have written
  children, \* the external process each invocation has started
  runningProcesses,  \* the registry of process handles of the server
  shutdown  \* the cleanup on SIGINT and SIGTERM: where it stands, what it did

vars == <<stats, op, arg, result, calls, files, children, runningProcesses, shutdown>>

(***************************************************************************)
(* Bounds of the model and constants of the program                        *)
(***************************************************************************)
MaxSize == 3
MaxAssets == 3
MaxModules == 3
MaxChunks == 2
MaxLong == 23

TopModules == 20
TopChunks == 10
FragmentationCap == 100
EfficiencyCap == 100
BytesPerKB == 1024
NodeModulesSlashLen == 13

(***************************************************************************)
(* JavaScript values                                                       *)
(***************************************************************************)
Undef == [t |-> "undefined"]
Null == [t |-> "null"]
Num(n) == [t |-> "number", v |-> n]
Str(s) == [t |-> "string", v |-> s]
Arr(a) == [t |-> "array", v |-> a]
Thrown == [t |-> "TypeError"]

Truthy(x) ==
  CASE x.t = "undefined" -> FALSE
    [] x.t = "null" -> FALSE
    [] x.t = "number" -> x.v # 0
    [] x.t = "string" -> x.v # <<>>
    [] OTHER -> TRUE

IsArray(x) == x.t = "array"

IsThrown(x) == "t" \in DOMAIN x /\ x.t = "TypeError"

\* x === y
StrictEquals(x, y) == x.t = y.t /\ x = y

\* x.k for a non-nullish x: an absent property, or any property of a
\* primitive, reads as undefined.
Get(x, k) == IF x.t = "object" /\ k \in DOMAIN x THEN x[k] ELSE Undef

\* x || y
Or(x, y) == IF Truthy(x) THEN x ELSE y

\* (x || 0) for x a number, null or undefined, as a plain integer
OrZero(x) == IF x.t = "number" /\ x.v # 0 THEN x.v ELSE 0

\* x?.[0]
Index0(x) ==
  CASE x.t = "array" -> IF Len(x.v) > 0 THEN x.v[1] ELSE Undef
    [] x.t = "string" -> IF Len(x.v) > 0 THEN Str(<<x.v[1]>>) ELSE Undef
    [] OTHER -> Undef

(***************************************************************************)
(* Strings                                                                 *)
(***************************************************************************)
UpperCase == <<"A","B","C","D","E","F","G","H","I","J","K","L","M",
               "N","O","P","Q","R","S","T","U","V","W","X","Y","Z">>
LowerCase == <<"a","b","c","d","e","f","g","h","i","j","k","l","m",
               "n","o","p","q","r","s","t","u","v","w","x","y","z">>
DigitChars == <<"0","1","2","3","4","5","6","7","8","9">>

toLowerCaseChar(c) ==
  IF \E i \in 1..Len(UpperCase) : UpperCase[i] = c
    THEN LowerCase[CHOOSE i \in 1..Len(UpperCase) : UpperCase[i] = c]
    ELSE c

toLowerCase(s) == [i \in 1..Len(s) |-> toLowerCaseChar(s[i])]

\* 0-based index of the first occurrence of sub in s, -1 when there is none
indexOf(s, sub) ==
  LET hits == {i \in 0..(Len(s) - Len(sub)) : SubSeq(s, i + 1, i + Len(sub)) = sub}
  IN IF hits = {} THEN -1 ELSE CHOOSE i \in hits : \A j \in hits : i <= j

includes(s, sub) == indexOf(s, sub) # -1

\* s.slice(from) with a 0-based, non-negative from
slice(s, from) == SubSeq(s, from + 1, Len(s))

\* s.split(sep)[0] for a one-character sep
splitFirst(s, sep) ==
  LET i == indexOf(s, <<sep>>) IN IF i = -1 THEN s ELSE SubSeq(s, 1, i)

\* s.replace(c, '') for a one-character string c: the first occurrence only
replaceFirst(s, c) ==
  LET i == indexOf(s, <<c>>)
  IN IF i = -1 THEN s ELSE SubSeq(s, 1, i) \o SubSeq(s, i + 2, Len(s))

\* Number.prototype.toString for a natural number
RECURSIVE numToString(_)
numToString(n) ==
  IF n < 10 THEN <<DigitChars[n + 1]>>
  ELSE numToString(n \div 10) \o <<DigitChars[(n % 10) + 1]>>

\* x?.toString() for the id shapes of the model
toStringOpt(x) ==
  CASE x.t = "number" -> Str(numToString(x.v))
    [] x.t = "string" -> x
    [] OTHER -> Undef

\* path.extname (posix) of a string: the part of the last path component from
\* its last dot on, '' when there is no dot, when the component starts with
\* its only dot, or when the component is '..'; trailing slashes are ignored.
extname(p) ==
  LET ends == {i \in 1..Len(p) : p[i] # "/"}
      end == IF ends = {} THEN 0 ELSE CHOOSE i \in ends : \A j \in ends : j <= i
      slashes == {i \in 1..end : p[i] = "/"}
      startPart == IF slashes = {} THEN 1
                   ELSE 1 + CHOOSE i \in slashes : \A j \in slashes : j <= i
      base == SubSeq(p, startPart, end)
      dots == {i \in 1..Len(base) : base[i] = "."}
      startDot == IF dots = {} THEN 0 ELSE CHOOSE i \in dots : \A j \in dots : j <= i
  IN IF end = 0 \/ startDot = 0 \/ startDot = 1 \/ base = <<".", ".">>
       THEN <<>>
       ELSE SubSeq(base, startDot, Len(base))

(***************************************************************************)
(* Numbers that need not be integers (the performance indicators) are      *)
(* exact fractions in lowest terms with a positive denominator.            *)
(***************************************************************************)
Abs(n) == IF n < 0 THEN -n ELSE n

RECURSIVE GCD(_, _)
GCD(a, b) == IF b = 0 THEN a ELSE GCD(b, a % b)

Frac(n, d) ==
  LET g == GCD(Abs(n), d) IN [num |-> n \div g, den |-> d \div g]

Zero == Frac(0, 1)

FracLeq(x, y) == x.num * y.den <= y.num * x.den

\* Math.min
FracMin(x, y) == IF FracLeq(x, y) THEN x ELSE y

\* Array.prototype.sort with a comparator (stable, as ECMAScript requires).
\* order[j][i] is what the comparator returns for (s[j], s[i]): element i goes
\* after every element that compares before it and after the earlier elements
\* that compare equal to it.
sort(s, order) ==
  LET n == Len(s)
      rank(i) == 1 + Cardinality({j \in 1..n : order[j][i] < 0})
                   + Cardinality({j \in 1..(i - 1) : order[j][i] = 0})
      \* the ranks of all elements, as one sequence
      ranks == [i \in 1..n |-> rank(i)] \o <<>>
  IN [p \in 1..n |-> s[CHOOSE i \in 1..n : ranks[i] = p]]

\* Array.prototype.slice(0, k)
sliceTo(s, k) == SubSeq(s, 1, IF Len(s) < k THEN Len(s) ELSE k)

(***************************************************************************)
(* getModuleType                                                           *)
(***************************************************************************)
NodeModules == <<"n","o","d","e","_","m","o","d","u","l","e","s">>
NpmPrefix == <<"n","p","m",":">>
TypeUnknown == <<"u","n","k","n","o","w","n">>
TypeJavascript == <<"j","a","v","a","s","c","r","i","p","t">>
TypeTypescript == <<"t","y","p","e","s","c","r","i","p","t">>
TypeStyles == <<"s","t","y","l","e","s">>
TypeImage == <<"i","m","a","g","e">>
TypeJson == <<"j","s","o","n">>
TypeOther == <<"o","t","h","e","r">>

\* The switch over the lowercased extension
extensionType(ext) ==
  CASE ext \in {<<".","j","s">>, <<".","j","s","x">>} -> TypeJavascript
    [] ext \in {<<".","t","s">>, <<".","t","s","x">>} -> TypeTypescript
    [] ext \in {<<".","c","s","s">>, <<".","s","c","s","s">>, <<".","l","e","s","s">>}
         -> TypeStyles
    [] ext \in {<<".","s","v","g">>, <<".","p","n","g">>, <<".","j","p","g">>,
                <<".","j","p","e","g">>, <<".","g","i","f">>} -> TypeImage
    [] ext = <<".","j","s","o","n">> -> TypeJson
    [] OTHER -> TypeOther

\* The result is Str(label), or Thrown: a truthy argument that is not a
\* string has no usable includes method, or fails path.extname's validation.
\* getModuleType with the extension compared as written
getModuleTypeCaseSensitive(modulePath) ==
  IF ~Truthy(modulePath) THEN Str(TypeUnknown)
  ELSE IF modulePath.t # "string" THEN Thrown
  ELSE IF includes(modulePath.v, NodeModules)
    THEN Str(NpmPrefix \o splitFirst(slice(modulePath.v,
               indexOf(modulePath.v, NodeModules) + NodeModulesSlashLen), "/"))
  ELSE Str(extensionType(extname(modulePath.v)))

getModuleType(modulePath) ==
  IF ~Truthy(modulePath) THEN Str(TypeUnknown)
  ELSE IF modulePath.t # "string" THEN Thrown
  ELSE IF includes(modulePath.v, NodeModules)
    THEN LET nodeModulesIndex == indexOf(modulePath.v, NodeModules)
             packagePath == slice(modulePath.v, nodeModulesIndex + NodeModulesSlashLen)
             packageName == splitFirst(packagePath, "/")
         IN Str(NpmPrefix \o packageName)
  ELSE Str(extensionType(toLowerCase(extname(modulePath.v))))

(***************************************************************************)
(* calculateChunkSize                                                      *)
(***************************************************************************)
\* asset.chunks.includes(chunkId) for a truthy asset.chunks: membership
\* (strict equality) in an array, substring of a string.
chunksIncludes(chunks, chunkId) ==
  CASE chunks.t = "array" -> \E i \in 1..Len(chunks.v) : StrictEquals(chunks.v[i], chunkId)
    [] chunks.t = "string" -> includes(chunks.v, chunkId.v)
    [] OTHER -> FALSE

\* The first disjunct of isChunkAsset
matchesById(asset, chunkId) ==
  /\ Truthy(chunkId)
  /\ Truthy(Get(asset, "chunks"))
  /\ chunksIncludes(Get(asset, "chunks"), chunkId)

\* The second disjunct of isChunkAsset, for a string asset.name
matchesByName(asset, chunkName) ==
  /\ Truthy(chunkName)
  /\ Truthy(Get(asset, "name"))
  /\ includes(Get(asset, "name").v, chunkName.v)

\* The callback throws a TypeError when the includes it reaches is no function:
\* a truthy asset.chunks that is neither array nor string, or (when the id did
\* not match) a truthy asset.name that is no string.
isChunkAssetThrows(asset, chunkId, chunkName) ==
  LET idTested == Truthy(chunkId) /\ Truthy(Get(asset, "chunks"))
  IN \/ idTested /\ Get(asset, "chunks").t \notin {"array", "string"}
     \/ /\ ~matchesById(asset, chunkId)
        /\ Truthy(chunkName)
        /\ Truthy(Get(asset, "name"))
        /\ Get(asset, "name").t # "string"

isChunkAsset(asset, chunkId, chunkName) ==
  matchesById(asset, chunkId) \/ matchesByName(asset, chunkName)

RECURSIVE sumModuleSizes(_)
sumModuleSizes(modules) ==
  IF modules = <<>> THEN 0
  ELSE OrZero(Get(Head(modules), "size")) + sumModuleSizes(Tail(modules))

\* stats.assets.reduce(..., 0) of the third strategy: Num(total) or Thrown
RECURSIVE sumChunkAssets(_, _, _)
sumChunkAssets(assets, chunkId, chunkName) ==
  IF assets = <<>> THEN Num(0)
  ELSE LET asset == assets[Len(assets)]
           total == sumChunkAssets(SubSeq(assets, 1, Len(assets) - 1), chunkId, chunkName)
       IN IF IsThrown(total) THEN Thrown
          ELSE IF ~Truthy(asset) THEN total
          ELSE IF isChunkAssetThrows(asset, chunkId, chunkName) THEN Thrown
          ELSE Num(total.v + (IF isChunkAsset(asset, chunkId, chunkName)
                                THEN OrZero(Get(asset, "size")) ELSE 0))

\* Whether the third strategy is tried at all
hasChunkIdentity(chunk) ==
  Get(chunk, "id").t # "undefined" \/ Get(chunk, "name").t # "undefined"

\* As calculateChunkSize, testing the size for truthiness instead of its type:
\* an explicit size of 0 falls through to the other strategies
calculateChunkSizeTruthySize(chunk, statsArg) ==
  IF ~Truthy(chunk) THEN Num(0)
  ELSE IF Get(chunk, "size").t = "number" /\ Get(chunk, "size").v # 0
    THEN Get(chunk, "size")
  ELSE IF IsArray(Get(chunk, "modules"))
    THEN Num(sumModuleSizes(Get(chunk, "modules").v))
  ELSE IF IsArray(Get(statsArg, "assets")) /\ hasChunkIdentity(chunk)
    THEN LET chunkId == toStringOpt(Get(chunk, "id"))
             chunkName == Or(Index0(Get(chunk, "names")), Get(chunk, "name"))
         IN sumChunkAssets(Get(statsArg, "assets").v, chunkId, chunkName)
  ELSE Num(0)

\* As calculateChunkSize, taking the modules only when there are some: an
\* empty modules sequence falls through to the assets
calculateChunkSizeNonEmptyModules(chunk, statsArg) ==
  IF ~Truthy(chunk) THEN Num(0)
  ELSE IF Get(chunk, "size").t = "number" THEN Get(chunk, "size")
  ELSE IF IsArray(Get(chunk, "modules")) /\ Get(chunk, "modules").v # <<>>
    THEN Num(sumModuleSizes(Get(chunk, "modules").v))
  ELSE IF IsArray(Get(statsArg, "assets")) /\ hasChunkIdentity(chunk)
    THEN LET chunkId == toStringOpt(Get(chunk, "id"))
             chunkName == Or(Index0(Get(chunk, "names")), Get(chunk, "name"))
         IN sumChunkAssets(Get(statsArg, "assets").v, chunkId, chunkName)
  ELSE Num(0)

\* Num(size) or Thrown; stats is not nullish here
calculateChunkSize(chunk, statsArg) ==
  IF ~Truthy(chunk) THEN Num(0)
  ELSE IF Get(chunk, "size").t = "number" THEN Get(chunk, "size")
  ELSE IF IsArray(Get(chunk, "modules"))
    THEN Num(sumModuleSizes(Get(chunk, "modules").v))
  ELSE IF IsArray(Get(statsArg, "assets")) /\ hasChunkIdentity(chunk)
    THEN LET chunkId == toStringOpt(Get(chunk, "id"))
             chunkName == Or(Index0(Get(chunk, "names")), Get(chunk, "name"))
         IN sumChunkAssets(Get(statsArg, "assets").v, chunkId, chunkName)
  ELSE Num(0)

(***************************************************************************)
(* extractMetrics                                                          *)
(***************************************************************************)
ExtUnknown == <<"u","n","k","n","o","w","n">>
NameUnknown == <<"u","n","k","n","o","w","n">>
NameUnnamedChunk == <<"u","n","n","a","m","e","d"," ","c","h","u","n","k">>
NameMain == <<"m","a","i","n">>
NameIndex == <<"i","n","d","e","x">>

ErrorReport == [error |-> "Failed to extract metrics"]

\* The metrics object as initialized; stats is not nullish here
initialMetrics(statsArg) ==
  [ totalSize |-> 0,
    totalSizeByType |-> [k \in {} |-> 0],
    entrypoints |-> [k \in {} |-> 0],
    largestModules |-> <<>>,
    largestChunks |-> <<>>,
    moduleCount |-> 0,
    chunkCount |-> 0,
    assetCount |-> 0,
    buildTime |-> OrZero(Get(statsArg, "time")),
    performance |-> [initialLoad |-> Zero, cacheEfficiency |-> Zero,
                     chunkFragmentation |-> Zero] ]

\* The key an asset is grouped under
assetExt(name) ==
  LET ext == replaceFirst(extname(name), ".")
  IN IF ext = <<>> THEN ExtUnknown ELSE ext

\* As addToType, storing the size in place of adding it: byType[ext] = size
addToTypeOverwrite(byType, ext, size) ==
  [k \in DOMAIN byType \cup {ext} |-> IF k = ext THEN size ELSE byType[k]]

\* byType[ext] = (byType[ext] || 0) + size
addToType(byType, ext, size) ==
  [k \in DOMAIN byType \cup {ext} |->
     IF k = ext THEN (IF ext \in DOMAIN byType THEN byType[ext] ELSE 0) + size
     ELSE byType[k]]

\* The accumulation of one asset
addAsset(metrics, asset) ==
  LET size == OrZero(Get(asset, "size"))
      name == Or(Get(asset, "name"), Str(<<>>))
  IN [metrics EXCEPT !.totalSize = @ + size,
                     !.totalSizeByType = addToType(@, assetExt(name.v), size)]

\* As assetsForEach, with the early return leaving the whole loop: the
\* entries after the first null one are not accumulated
RECURSIVE assetsForEachStopAtNull(_, _)
assetsForEachStopAtNull(metrics, assets) ==
  IF assets = <<>> THEN metrics
  ELSE IF ~Truthy(Head(assets)) THEN metrics
  ELSE IF Or(Get(Head(assets), "name"), Str(<<>>)).t # "string" THEN Thrown
  ELSE assetsForEachStopAtNull(addAsset(metrics, Head(assets)), Tail(assets))

\* The callback of stats.assets.forEach, applied to the entries in order.
\* path.extname throws for a name that is truthy and not a string.
RECURSIVE assetsForEach(_, _)
assetsForEach(metrics, assets) ==
  IF assets = <<>> THEN metrics
  ELSE IF ~Truthy(Head(assets)) THEN assetsForEach(metrics, Tail(assets))
  ELSE IF Or(Get(Head(assets), "name"), Str(<<>>)).t # "string" THEN Thrown
  ELSE assetsForEach(addAsset(metrics, Head(assets)), Tail(assets))

\* As processAssets, counting only the entries that are accumulated
processAssetsCountingLive(metrics, statsArg) ==
  LET assets == Get(statsArg, "assets")
  IN IF Truthy(assets) /\ IsArray(assets)
       THEN assetsForEach([metrics EXCEPT !.assetCount = Len(SelectSeq(assets.v, Truthy))],
                          assets.v)
       ELSE metrics

\* "Process assets"
processAssets(metrics, statsArg) ==
  LET assets == Get(statsArg, "assets")
  IN IF Truthy(assets) /\ IsArray(assets)
       THEN assetsForEach([metrics EXCEPT !.assetCount = Len(assets.v)], assets.v)
       ELSE metrics

\* Object.entries: the own enumerable properties in order. An object used as a
\* mapping is [t |-> "object", entries |-> <<[name |-> s, value |-> x], ...>>].
ObjectEntries(x) ==
  CASE x.t = "object" /\ "entries" \in DOMAIN x -> x.entries
    [] x.t = "array" -> [i \in 1..Len(x.v) |-> [name |-> numToString(i - 1), value |-> x.v[i]]]
    [] OTHER -> <<>>

\* The sum over entrypoint.assets: only entries that are objects count
RECURSIVE sumEntrypointAssets(_)
sumEntrypointAssets(assets) ==
  IF assets = <<>> THEN 0
  ELSE (IF Head(assets).t \in {"object", "array"}
          THEN OrZero(Get(Head(assets), "size")) ELSE 0)
       + sumEntrypointAssets(Tail(assets))

entrypointSizeOf(entrypoint) ==
  LET assets == Get(entrypoint, "assets")
  IN IF Truthy(assets) /\ IsArray(assets) THEN sumEntrypointAssets(assets.v) ELSE 0

\* metrics.entrypoints[name] = value
setEntry(map, name, value) ==
  [k \in DOMAIN map \cup {name} |-> IF k = name THEN value ELSE map[k]]

\* As entrypointsForEach, recording entrypoint.chunks as it is
RECURSIVE entrypointsForEachNoDefault(_, _)
entrypointsForEachNoDefault(metrics, entries) ==
  IF entries = <<>> THEN metrics
  ELSE LET name == Head(entries).name
           entrypoint == Head(entries).value
           entrypointSize == entrypointSizeOf(entrypoint)
           recorded == [metrics EXCEPT !.entrypoints =
                          setEntry(@, name, [size |-> entrypointSize,
                                             chunks |-> Get(entrypoint, "chunks")])]
       IN IF ~Truthy(entrypoint) THEN entrypointsForEachNoDefault(metrics, Tail(entries))
          ELSE IF name = NameMain \/ name = NameIndex
            THEN entrypointsForEachNoDefault(
                   [recorded EXCEPT !.performance.initialLoad =
                                      Frac(entrypointSize, BytesPerKB)],
                   Tail(entries))
          ELSE entrypointsForEachNoDefault(recorded, Tail(entries))

\* As entrypointsForEach, with initialLoad set by the first of main and index
RECURSIVE entrypointsForEachFirstWins(_, _)
entrypointsForEachFirstWins(metrics, entries) ==
  IF entries = <<>> THEN metrics
  ELSE LET name == Head(entries).name
           entrypoint == Head(entries).value
           entrypointSize == entrypointSizeOf(entrypoint)
           entrypointChunks == Or(Get(entrypoint, "chunks"), Arr(<<>>))
           recorded == [metrics EXCEPT !.entrypoints =
                          setEntry(@, name, [size |-> entrypointSize,
                                             chunks |-> entrypointChunks])]
           seen == \E k \in DOMAIN metrics.entrypoints : k \in {NameMain, NameIndex}
       IN IF ~Truthy(entrypoint) THEN entrypointsForEachFirstWins(metrics, Tail(entries))
          ELSE IF (name = NameMain \/ name = NameIndex) /\ ~seen
            THEN entrypointsForEachFirstWins(
                   [recorded EXCEPT !.performance.initialLoad =
                                      Frac(entrypointSize, BytesPerKB)],
                   Tail(entries))
          ELSE entrypointsForEachFirstWins(recorded, Tail(entries))

\* The callback of Object.entries(stats.entrypoints).forEach, in order
RECURSIVE entrypointsForEach(_, _)
entrypointsForEach(metrics, entries) ==
  IF entries = <<>> THEN metrics
  ELSE LET name == Head(entries).name
           entrypoint == Head(entries).value
           entrypointSize == entrypointSizeOf(entrypoint)
           entrypointChunks == Or(Get(entrypoint, "chunks"), Arr(<<>>))
           recorded == [metrics EXCEPT !.entrypoints =
                          setEntry(@, name, [size |-> entrypointSize,
                                             chunks |-> entrypointChunks])]
       IN IF ~Truthy(entrypoint) THEN entrypointsForEach(metrics, Tail(entries))
          ELSE IF name = NameMain \/ name = NameIndex
            THEN entrypointsForEach(
                   [recorded EXCEPT !.performance.initialLoad =
                                      Frac(entrypointSize, BytesPerKB)],
                   Tail(entries))
          ELSE entrypointsForEach(recorded, Tail(entries))

\* As processEntrypoints, without the test that entrypoints is there:
\* Object.entries throws for undefined and null
processEntrypointsUnguarded(metrics, statsArg) ==
  LET entrypoints == Get(statsArg, "entrypoints")
  IN IF entrypoints.t \in {"undefined", "null"}
       THEN Thrown
       ELSE entrypointsForEach(metrics, ObjectEntries(entrypoints))

\* "Process entrypoints"
processEntrypoints(metrics, statsArg) ==
  LET entrypoints == Get(statsArg, "entrypoints")
  IN IF Truthy(entrypoints)
       THEN entrypointsForEach(metrics, ObjectEntries(entrypoints))
       ELSE metrics

\* module && module.size > 0
isValidModule(module) ==
  Truthy(module) /\ Get(module, "size").t = "number" /\ Get(module, "size").v > 0

\* As compareModules, with the operands swapped: ascending order
compareModulesAscending(a, b) == OrZero(Get(a, "size")) - OrZero(Get(b, "size"))

\* (a, b) => (b.size || 0) - (a.size || 0)
compareModules(a, b) == OrZero(Get(b, "size")) - OrZero(Get(a, "size"))

\* [...stats.modules].filter(...).sort(...).slice(0, 20)
sortedModulesOf(modules) ==
  LET valid == SelectSeq(modules, isValidModule)
      order == [j \in 1..Len(valid) |->
                  [i \in 1..Len(valid) |-> compareModules(valid[j], valid[i])]]
  IN sliceTo(sort(valid, order), TopModules)

\* One entry of largestModules; type is Thrown when getModuleType throws
largestModuleEntry(module) ==
  [ name |-> Or(Get(module, "name"), Str(NameUnknown)),
    size |-> OrZero(Get(module, "size")),
    type |-> getModuleType(Or(Get(module, "name"), Str(<<>>))) ]

\* The body of the modules pass, for a sequence
processModuleList(metrics, list) ==
  LET sortedModules == sortedModulesOf(list)
      mapped == [i \in 1..Len(sortedModules) |-> largestModuleEntry(sortedModules[i])]
  IN IF \E i \in 1..Len(mapped) : IsThrown(mapped[i].type)
       THEN Thrown
       ELSE [metrics EXCEPT !.moduleCount = Len(SelectSeq(list, isValidModule)),
                            !.largestModules = mapped]

\* As processModules, without the Array.isArray test: filter is called on
\* whatever truthy value modules is
processModulesNoArrayCheck(metrics, statsArg) ==
  LET modules == Get(statsArg, "modules")
  IN IF Truthy(modules)
       THEN IF IsArray(modules) THEN processModuleList(metrics, modules.v) ELSE Thrown
       ELSE metrics

\* "Process modules"
processModules(metrics, statsArg) ==
  LET modules == Get(statsArg, "modules")
  IN IF Truthy(modules) /\ IsArray(modules)
       THEN processModuleList(metrics, modules.v)
       ELSE metrics

\* One entry of largestChunks
largestChunkEntry(chunk, statsArg) ==
  [ id |-> Or(toStringOpt(Get(chunk, "id")), Str(NameUnknown)),
    name |-> Or(Or(Index0(Get(chunk, "names")), Get(chunk, "name")),
                Str(NameUnnamedChunk)),
    size |-> calculateChunkSize(chunk, statsArg).v,
    modules |-> IF IsArray(Get(chunk, "modules"))
                  THEN Len(Get(chunk, "modules").v) ELSE 0 ]

\* (a, b) => calculateChunkSize(b, stats) - calculateChunkSize(a, stats)
compareChunks(a, b, statsArg) ==
  calculateChunkSize(b, statsArg).v - calculateChunkSize(a, statsArg).v

\* As sortedChunksOf, with the cut taken before the sort
sortedChunksCutFirst(chunks, statsArg) ==
  LET cut == sliceTo(SelectSeq(chunks, Truthy), TopChunks)
      order == [j \in 1..Len(cut) |->
                  [i \in 1..Len(cut) |-> compareChunks(cut[j], cut[i], statsArg)]]
  IN sort(cut, order)

\* [...stats.chunks].filter(...).sort(...).slice(0, 10), when no
\* calculateChunkSize throws
sortedChunksOf(chunks, statsArg) ==
  LET valid == SelectSeq(chunks, Truthy)
      order == [j \in 1..Len(valid) |->
                  [i \in 1..Len(valid) |-> compareChunks(valid[j], valid[i], statsArg)]]
  IN sliceTo(sort(valid, order), TopChunks)

\* Object.keys(metrics.entrypoints).length
entrypointCount(metrics) == Cardinality(DOMAIN metrics.entrypoints)

Max(a, b) == IF a >= b THEN a ELSE b

\* As chunkFragmentationOf, without the cap
chunkFragmentationUncapped(metrics) ==
  IF metrics.chunkCount > 0
    THEN Frac(metrics.chunkCount, Max(entrypointCount(metrics), 1))
    ELSE metrics.performance.chunkFragmentation

\* "Calculate chunk fragmentation"
chunkFragmentationOf(metrics) ==
  IF metrics.chunkCount > 0
    THEN FracMin(Frac(metrics.chunkCount, Max(entrypointCount(metrics), 1)),
                 Frac(FragmentationCap, 1))
    ELSE metrics.performance.chunkFragmentation

\* "Process chunks"
processChunks(metrics, statsArg) ==
  LET chunks == Get(statsArg, "chunks")
  IN IF Truthy(chunks) /\ IsArray(chunks)
       THEN LET valid == SelectSeq(chunks.v, Truthy)
            IN IF \E i \in 1..Len(valid) : IsThrown(calculateChunkSize(valid[i], statsArg))
                 THEN Thrown
                 ELSE LET sortedChunks == sortedChunksOf(chunks.v, statsArg)
                          counted == [metrics EXCEPT
                            !.chunkCount = Len(valid),
                            !.largestChunks = [i \in 1..Len(sortedChunks) |->
                               largestChunkEntry(sortedChunks[i], statsArg)]]
                      IN [counted EXCEPT !.performance.chunkFragmentation =
                                           chunkFragmentationOf(counted)]
       ELSE metrics

\* metrics.entrypoints?.main?.size || metrics.entrypoints?.index?.size || 0
mainBundleSizeOf(metrics) ==
  LET sizeOf(name) == IF name \in DOMAIN metrics.entrypoints
                        THEN metrics.entrypoints[name].size ELSE 0
  IN IF sizeOf(NameMain) # 0 THEN sizeOf(NameMain) ELSE sizeOf(NameIndex)

\* "Calculate cache efficiency estimation"
processCacheEfficiency(metrics) ==
  IF metrics.totalSize > 0 /\ metrics.chunkCount > 1
    THEN [metrics EXCEPT !.performance.cacheEfficiency =
            FracMin(Frac((metrics.totalSize - mainBundleSizeOf(metrics)) * 100,
                         metrics.totalSize),
                    Frac(EfficiencyCap, 1))]
    ELSE metrics

\* A pass of the try block, reached when no pass before it has thrown
thenCacheEfficiency(m4) ==
  IF IsThrown(m4) THEN Thrown ELSE processCacheEfficiency(m4)
thenChunks(m3, statsArg) ==
  thenCacheEfficiency(IF IsThrown(m3) THEN Thrown ELSE processChunks(m3, statsArg))
thenModules(m2, statsArg) ==
  thenChunks(IF IsThrown(m2) THEN Thrown ELSE processModules(m2, statsArg), statsArg)
thenEntrypoints(m1, statsArg) ==
  thenModules(IF IsThrown(m1) THEN Thrown ELSE processEntrypoints(m1, statsArg), statsArg)

\* The body of the try block: the metrics object, or Thrown
tryBody(statsArg) ==
  IF statsArg.t \in {"undefined", "null"} THEN Thrown
  ELSE thenEntrypoints(processAssets(initialMetrics(statsArg), statsArg), statsArg)

\* catch (error) { return { error: 'Failed to extract metrics' } }
caught(completion) == IF IsThrown(completion) THEN ErrorReport ELSE completion

\* As extractMetrics, without the try/catch: an exception escapes
extractMetricsNoCatch(statsArg) == tryBody(statsArg)

\* try { ... return metrics } catch { return { error: ... } }
extractMetrics(statsArg) == caught(tryBody(statsArg))

\* --- what a call leaves in the document
\* The two arrays of the modules pass once its chain of calls has run: the one
\* the document holds, and the one made by [...stats.modules].filter(...).
\* Array.prototype.sort reorders the array it is called on, the receiver.
modulesArrays(list, receiver) ==
  LET copy == SelectSeq(list, isValidModule)
      sorted(s) == sort(s, [j \in 1..Len(s) |->
                              [i \in 1..Len(s) |-> compareModules(s[j], s[i])]])
  IN IF receiver = "copy"
       THEN [document |-> list, copy |-> sorted(copy)]
       ELSE [document |-> sorted(list), copy |-> copy]

\* As modulesAfter, with sort called on stats.modules itself
modulesAfterSortInPlace(list) == modulesArrays(list, "document").document

\* stats.modules after the modules pass: sort is called on the filtered copy
modulesAfter(list) == modulesArrays(list, "copy").document

\* The two arrays of the chunks pass, likewise, when no comparison throws
chunksArrays(list, statsArg, receiver) ==
  LET copy == SelectSeq(list, Truthy)
      sorted(s) == sort(s, [j \in 1..Len(s) |->
                              [i \in 1..Len(s) |-> compareChunks(s[j], s[i], statsArg)]])
  IN IF receiver = "copy"
       THEN [document |-> list, copy |-> sorted(copy)]
       ELSE [document |-> sorted(list), copy |-> copy]

\* stats.chunks after the chunks pass: sort is called on the filtered copy
chunksAfter(list, statsArg) == chunksArrays(list, statsArg, "copy").document

\* The document after extractMetrics(stats): a pass that is reached leaves
\* its section as its chain of calls leaves it; nothing else is assigned
documentAfter(statsArg) ==
  IF statsArg.t # "object" THEN statsArg
  ELSE LET m1 == processAssets(initialMetrics(statsArg), statsArg)
           m2 == IF IsThrown(m1) THEN Thrown ELSE processEntrypoints(m1, statsArg)
           m3 == IF IsThrown(m2) THEN Thrown ELSE processModules(m2, statsArg)
           m4 == IF IsThrown(m3) THEN Thrown ELSE processChunks(m3, statsArg)
           modules == Get(statsArg, "modules")
           chunks == Get(statsArg, "chunks")
           afterModules ==
             IF ~IsThrown(m2) /\ IsArray(modules)
               THEN [statsArg EXCEPT !.modules = Arr(modulesAfter(modules.v))]
               ELSE statsArg
       IN IF ~IsThrown(m4) /\ IsArray(chunks)
            THEN [afterModules EXCEPT !.chunks = Arr(chunksAfter(chunks.v, statsArg))]
            ELSE afterModules

(***************************************************************************)
(* Stats documents                                                         *)
(***************************************************************************)
Asset(name, size, chunks) ==
  [t |-> "object", name |-> name, size |-> size, chunks |-> chunks]
Module(name, size) == [t |-> "object", name |-> name, size |-> size]
Chunk(id, name, names, size, modules) ==
  [t |-> "object", id |-> id, name |-> name, names |-> names, size |-> size,
   modules |-> modules]
Entrypoint(chunks, assets) == [t |-> "object", chunks |-> chunks, assets |-> assets]
EntryAsset(size) == [t |-> "object", size |-> size]
Mapping(entries) == [t |-> "object", entries |-> entries]
Stats(assets, modules, chunks, entrypoints, time) ==
  [t |-> "object", assets |-> assets, modules |-> modules, chunks |-> chunks,
   entrypoints |-> entrypoints, time |-> time]

aJS == Str(<<"a",".","J","S">>)
bjs == Str(<<"b",".","j","s">>)
mainjs == Str(<<"m","a","i","n",".","j","s">>)
maincss == Str(<<"m","a","i","n",".","c","s","s">>)
vendor == Str(<<"v","e","n","d","o","r">>)
main == Str(NameMain)
other == Str(<<"o","t","h","e","r">>)
id0 == Str(<<"0">>)
srcAts == Str(<<"s","r","c","/","A",".","t","s">>)
lodash == Str(NodeModules \o <<"/","l","o","d","a","s","h","/","i",".","j","s">>)

\* All sequences over S of length at most n
SeqUpTo(S, n) == UNION {[1..k -> S] : k \in 0..n}

Sizes == {Undef} \cup {Num(n) : n \in 0..MaxSize}

\* --- documents that vary the shape of the four sections
ShapeAssets ==
  { Undef, Null, Arr(<<>>), Num(5),
    Arr(<<Asset(mainjs, Num(MaxSize), Undef), Null, Asset(maincss, Num(1), Undef)>>),
    Arr(<<Asset(Num(7), Num(1), Undef)>>) }
ShapeModules ==
  { Undef, Null, Arr(<<>>), Num(5),
    Arr(<<Module(srcAts, Num(2)), Null, Module(lodash, Num(MaxSize))>>),
    Arr(<<Module(Num(7), Num(1))>>) }
ShapeChunks ==
  { Undef, Null, Arr(<<>>), Num(5),
    Arr(<<Chunk(Num(0), Undef, Arr(<<main>>), Num(MaxSize), Arr(<<>>)), Null,
          Chunk(Num(1), Undef, Undef, Undef, Undef)>>) }
ShapeEntrypoints ==
  { Undef, Null, Mapping(<<>>), Num(5),
    Mapping(<<[name |-> NameMain,
               value |-> Entrypoint(Arr(<<id0>>),
                                    Arr(<<EntryAsset(Num(2)), vendor, Null>>))],
              [name |-> other.v, value |-> Null]>>) }
ShapeDocs ==
  {Undef, Null, Num(5), vendor} \cup
  { Stats(a, m, c, e, time) :
      a \in ShapeAssets, m \in ShapeModules, c \in ShapeChunks,
      e \in ShapeEntrypoints, time \in {Undef, Num(543)} }

\* --- documents that vary the assets
AssetPool ==
  { Null,
    Asset(aJS, Num(1), Undef), Asset(aJS, Num(MaxSize), Undef),
    Asset(bjs, Undef, Undef), Asset(bjs, Num(2), Undef),
    Asset(vendor, Num(1), Undef), Asset(Undef, Num(2), Undef),
    Asset(Num(7), Num(1), Undef) }
TwoChunks ==
  Arr(<<Chunk(Num(0), Undef, Undef, Num(1), Undef),
        Chunk(Num(1), Undef, Undef, Num(2), Undef)>>)
AssetDocs ==
  { Stats(Arr(a), Undef, c, Undef, Undef) :
      a \in SeqUpTo(AssetPool, MaxAssets), c \in {Undef, TwoChunks} }

\* --- documents that vary the modules
ModulePool ==
  { Null,
    Module(srcAts, Num(0)), Module(srcAts, Num(2)), Module(srcAts, Undef),
    Module(lodash, Num(1)), Module(lodash, Num(MaxSize)),
    Module(Undef, Num(1)), Module(Num(7), Num(1)) }
ModuleDocs ==
  { Stats(Undef, Arr(m), Undef, Undef, Undef) : m \in SeqUpTo(ModulePool, MaxModules) }

\* Long module and chunk lists, longer than the two top-N cuts: entry i has
\* size 1 + (a*i + b) mod (MaxLong - 2), but entry b+1 is null and entry 3 has
\* size 0.
LongSize(i, a, b) == IF i = 3 THEN 0 ELSE 1 + ((a * i + b) % (MaxLong - 2))
LongModules(n, a, b) ==
  [i \in 1..n |-> IF i = b + 1 THEN Null
                  ELSE Module(IF i % 2 = 0 THEN srcAts ELSE lodash,
                              Num(LongSize(i, a, b)))]
LongChunks(n, a, b) ==
  [i \in 1..n |-> IF i = b + 1 THEN Null
                  ELSE IF i % 4 = 0
                    THEN Chunk(Num(i), Undef, Undef, Undef,
                               Arr(<<Module(srcAts, Num(LongSize(i, a, b))), Null,
                                     Module(srcAts, Num(1))>>))
                  ELSE Chunk(Num(i), Undef, Undef, Num(LongSize(i, a, b)),
                             Arr(<<Module(srcAts, Num(1))>>))]
LongDocs ==
  { Stats(Undef, Arr(LongModules(n, a, b)), Undef, Undef, Undef) :
      n \in 0..MaxLong, a \in 1..3, b \in 0..MaxSize }
  \cup
  { Stats(Undef, Undef, Arr(LongChunks(n, a, b)), Undef, Undef) :
      n \in 0..MaxLong, a \in 1..3, b \in 0..MaxSize }

\* --- documents that vary one chunk and the assets it may be matched with
ChunkPool ==
  { Chunk(id, name, names, size, modules) :
      id \in {Undef, Null, Num(0), id0},
      name \in {Undef, main},
      names \in {Undef, Arr(<<>>), Arr(<<main>>), Arr(<<bjs, main>>)},
      size \in {Undef, Num(0), Num(MaxSize)},
      modules \in {Undef, Arr(<<>>),
                   Arr(<<Module(srcAts, Num(2)), Null, Module(srcAts, Undef),
                         Module(lodash, Num(MaxSize))>>)} }
ChunkAssetLists ==
  { Undef,
    Arr(<<Asset(mainjs, Num(MaxSize), Arr(<<id0>>)), Asset(bjs, Num(2), Arr(<<Num(0)>>)),
          Null, Asset(maincss, Num(1), Undef), Asset(vendor, Num(1), Arr(<<id0>>))>>),
    Arr(<<Asset(vendor, Num(2), Num(5))>>) }
SmallChunkPool ==
  { Null,
    Chunk(Num(0), Undef, Undef, Num(2), Undef),
    Chunk(Num(1), Undef, Undef, Undef, Arr(<<Module(srcAts, Num(MaxSize))>>)),
    Chunk(Num(0), Undef, Undef, Undef, Undef),
    Chunk(Undef, main, Undef, Undef, Undef),
    Chunk(Undef, Undef, Arr(<<main>>), Undef, Undef) }
ChunkDocs ==
  { Stats(a, Undef, Arr(<<chunk>>), Undef, Undef) :
      a \in ChunkAssetLists, chunk \in ChunkPool }
  \cup
  { Stats(a, Undef, Arr(c), Undef, Undef) :
      a \in ChunkAssetLists, c \in SeqUpTo(SmallChunkPool, MaxChunks) }

\* --- documents that vary the name of one module: a path
PathExts ==
  {
    <<>>, <<".","j","s">>, <<".","j","s","x">>, <<".","t","s">>,
    <<".","t","s","x">>, <<".","c","s","s">>, <<".","s","c","s","s">>, <<".","l","e","s","s">>,
    <<".","s","v","g">>, <<".","p","n","g">>, <<".","j","p","g">>, <<".","j","p","e","g">>,
    <<".","g","i","f">>, <<".","j","s","o","n">>, <<".","J","S">>, <<".","T","s","x">>,
    <<".","P","N","G">>, <<".","J","s","o","n">>, <<".","m","d">>, <<".">>,
    <<"j","s">>, <<".","j","s","x","2">> }
PathStems ==
  {
    <<>>, <<"a">>, <<"s","r","c","/","A">>,
    <<"v","1",".","2","/","b">>, <<"x",".","d">> }
LocalPaths == {stem \o ext : stem \in PathStems, ext \in PathExts}
PackagePrefixes ==
  {
    <<>>, <<".","/">>, <<"s","r","c","/","a","p","p","/">> }
PackageTails ==
  {
    <<"/","l","o","d","a","s","h","/","i","n","d","e","x",".","j","s">>, <<"/","l","o","d","a","s","h">>,
    <<"/","@","s","/","p","/","i",".","t","s">>, <<>>,
    <<"/">>, <<"_","x","/","y",".","j","s">>,
    <<".","j","s">>, <<"/","a","/","n","o","d","e","_","m","o","d","u","l","e","s","/","b",".","c","s","s">>,
    <<"/","/","a",".","j","s">> }
PackagePaths ==
  {pre \o NodeModules \o tail : pre \in PackagePrefixes, tail \in PackageTails}
ModulePaths == LocalPaths \cup PackagePaths
PathDocs ==
  { Stats(Undef, Arr(<<Module(Str(p), Num(1))>>), Undef, Undef, Undef) :
      p \in ModulePaths } \cup
  { Stats(Undef, Arr(<<Module(Undef, Num(1))>>), Undef, Undef, Undef) }

\* --- documents that vary the entrypoints, with assets and chunks to measure
\* them against
EntryNames == {NameMain, NameIndex, other.v}
EntryValues ==
  { Null,
    Entrypoint(Undef, Undef),
    Entrypoint(Arr(<<id0>>),
               Arr(<<EntryAsset(Num(2)), vendor, Null, EntryAsset(Undef)>>)),
    Entrypoint(Arr(<<>>), Arr(<<EntryAsset(Num(MaxSize)), EntryAsset(Num(1))>>)) }
\* the entry lists over distinct names, in every order
EntryLists ==
  { entries \in SeqUpTo([name : EntryNames, value : EntryValues],
                        Cardinality(EntryNames)) :
      \A i, j \in 1..Len(entries) : i # j => entries[i].name # entries[j].name }
EntryAssets ==
  { Undef,
    Arr(<<Asset(mainjs, Num(MaxSize), Undef)>>),
    Arr(<<Asset(mainjs, Num(MaxSize), Undef), Asset(maincss, Num(2), Undef)>>) }
SizedChunk(i) == Chunk(Num(i), Undef, Undef, Num(i), Undef)
EntryChunks ==
  { Undef,
    Arr(<<SizedChunk(0)>>),
    Arr(<<SizedChunk(0), SizedChunk(1)>>),
    Arr(<<SizedChunk(0), Null, SizedChunk(1), SizedChunk(2)>>) }
EntrypointDocs ==
  { Stats(a, Undef, c, Mapping(entries), Undef) :
      a \in EntryAssets, c \in EntryChunks, entries \in EntryLists }

\* --- the documents of the two scenarios of the specification
ScenarioDocs ==
  { Stats(Arr(<<Asset(mainjs, Num(1000), Undef), Asset(maincss, Num(200), Undef)>>),
          Undef,
          Arr(<<Chunk(id0, Undef, Undef, Num(1000), Arr(<<>>))>>),
          Mapping(<<[name |-> NameMain,
                     value |-> Entrypoint(Arr(<<id0>>), Arr(<<EntryAsset(Num(1000))>>))]>>),
          Num(543)),
    Stats(Arr(<<Asset(mainjs, Num(1000), Undef)>>),
          Undef,
          Arr(<<SizedChunk(0), SizedChunk(1)>>),
          Mapping(<<[name |-> NameMain,
                     value |-> Entrypoint(Undef, Arr(<<EntryAsset(Num(400))>>))]>>),
          Undef) }
\* --- documents whose modules and chunks are not in the order of the report,
\* with and without an asset whose name makes the assets pass throw
OrderModules ==
  { <<Module(lodash, Num(1)), Module(srcAts, Num(2))>>,
    <<Module(srcAts, Num(2)), Null, Module(lodash, Num(1)), Module(lodash, Num(MaxSize))>> }
OrderChunks ==
  { <<SizedChunk(1), SizedChunk(2)>>,
    <<SizedChunk(2), Null, SizedChunk(0), SizedChunk(MaxSize)>> }
OrderDocs ==
  { Stats(a, Arr(m), Arr(c), Undef, Undef) :
      a \in {Undef, Arr(<<Asset(Num(7), Num(1), Undef)>>)},
      m \in OrderModules, c \in OrderChunks }

\* --- documents with about as many chunks as the fragmentation cap
ManyChunks(n) == Arr([i \in 1..n |-> SizedChunk(i % 7)])
ManyChunksDocs ==
  { Stats(Undef, Undef, ManyChunks(n), Mapping(entries), Undef) :
      n \in {FragmentationCap - 1, FragmentationCap, FragmentationCap + 1},
      entries \in {e \in EntryLists : Len(e) <= 1} }

Docs ==
  ShapeDocs \cup AssetDocs \cup ModuleDocs \cup LongDocs \cup ChunkDocs \cup
  PathDocs \cup EntrypointDocs \cup ScenarioDocs \cup ManyChunksDocs \cup
  OrderDocs

(***************************************************************************)
(* The server around the engine: tool invocations, the files they write    *)
(* and the external processes they start                                   *)
(***************************************************************************)
\* The number of tool invocations of a run
MaxCalls == 2

CallIds == 1..MaxCalls

\* An argument that was not given
Absent == ""

\* path.join(dir, name) and path.dirname
join(dir, name) == [dir |-> dir, name |-> name]
dirname(p) == p.dir

NoPath == join(Absent, <<>>)

\* s.endsWith(suffix)
endsWith(s, suffix) ==
  Len(suffix) <= Len(s) /\ SubSeq(s, Len(s) - Len(suffix) + 1, Len(s)) = suffix

\* --- the file system the server finds: two projects and a reports directory
AppDir == "/w/app"
LibDir == "/w/lib"
OutDir == "/w/out"
GoneDir == "/w/gone"
ExistingDirs == {AppDir, LibDir, OutDir}

WebpackConfigName == <<"w","e","b","p","a","c","k",".","c","o","n","f","i","g",".","j","s">>
PackageJsonName == <<"p","a","c","k","a","g","e",".","j","s","o","n">>
StatsJsonName == <<"s","t","a","t","s",".","j","s","o","n">>
StatsTxtName == <<"s","t","a","t","s",".","t","x","t">>
ExistingFiles ==
  { join(AppDir, WebpackConfigName), join(LibDir, WebpackConfigName),
    join(AppDir, PackageJsonName), join(LibDir, PackageJsonName),
    join(AppDir, StatsJsonName), join(AppDir, StatsTxtName),
    join(LibDir, StatsJsonName) }

\* package.json names next as a dependency; its type is "module" or
\* next.config.mjs stands in for next.config.js
NextProjects == {AppDir, LibDir}
EsmProjects == {LibDir}

\* validatePath for an absolute path: the path itself when it is there
validatePath(p, type) ==
  [valid |-> IF type = "file" THEN p \in ExistingFiles ELSE p \in ExistingDirs,
   resolvedPath |-> p]

\* --- the files the handlers write
TempWebpackConfigName == <<"w","e","b","p","a","c","k",".","a","n","a","l","y","z","e","r",".","c","o","n","f","i","g",".","j","s">>
TempNextConfigName == <<"n","e","x","t",".","a","n","a","l","y","z","e","r",".","c","o","n","f","i","g",".","j","s">>
TempNextConfigMjsName == <<"n","e","x","t",".","a","n","a","l","y","z","e","r",".","c","o","n","f","i","g",".","m","j","s">>
BuildScriptName == <<"r","u","n","-","n","e","x","t","-","b","u","i","l","d",".","j","s">>
TempStatsName == <<"t","e","m","p","-","a","n","a","l","y","z","e","r","/","s","t","a","t","s",".","j","s","o","n">>
TempNames ==
  {TempWebpackConfigName, TempNextConfigName, TempNextConfigMjsName,
   BuildScriptName, TempStatsName}
TempPaths == {join(d, n) : d \in ExistingDirs, n \in TempNames}

\* What a written file holds: the invocation that wrote it and, for the build
\* script, the configuration file it names (NEXT_CONFIG_FILE)
FileOf(writer, config) == [writer |-> writer, config |-> config]
NoFile == FileOf(0, NoPath)

\* --- tool calls
ToolStats == "analyze_webpack_stats"
ToolConfig == "analyze_webpack_config"
ToolNextjs == "analyze_nextjs_build"

Bool(b) == [t |-> "boolean", v |-> b]

\* request.params.arguments with no field given
NoArguments ==
  [t |-> "object", statsFile |-> Undef, configPath |-> Undef, projectDir |-> Undef,
   outputDir |-> Undef, port |-> Undef, openBrowser |-> Undef,
   generateReport |-> Undef, includeRawStats |-> Undef]

\* typeof x === 'undefined' || typeof x === type
UndefinedOr(x, type) == x.t = "undefined" \/ x.t = type

\* As hasValidOptions, without the test of port
hasValidOptionsButPort(args) ==
  /\ UndefinedOr(Get(args, "outputDir"), "string")
  /\ UndefinedOr(Get(args, "openBrowser"), "boolean")
  /\ UndefinedOr(Get(args, "generateReport"), "boolean")
  /\ UndefinedOr(Get(args, "includeRawStats"), "boolean")

\* The optional fields the three validators test alike
hasValidOptions(args) ==
  /\ UndefinedOr(Get(args, "outputDir"), "string")
  /\ UndefinedOr(Get(args, "port"), "number")
  /\ UndefinedOr(Get(args, "openBrowser"), "boolean")
  /\ UndefinedOr(Get(args, "generateReport"), "boolean")
  /\ UndefinedOr(Get(args, "includeRawStats"), "boolean")

\* typeof args === 'object' && args !== null (an array is an object too)
isObject(args) == args.t \in {"object", "array"}

isValidAnalyzeWebpackBuildArgs(args) ==
  isObject(args) /\ Get(args, "statsFile").t = "string" /\ hasValidOptions(args)

isValidAnalyzeWebpackConfigArgs(args) ==
  isObject(args) /\ Get(args, "configPath").t = "string" /\ hasValidOptions(args)

isValidAnalyzeNextjsBuildArgs(args) ==
  isObject(args) /\ Get(args, "projectDir").t = "string" /\ hasValidOptions(args)

\* A CallTool request: request.params.name and request.params.arguments
CallToolRequest(name, arguments) == [name |-> name, arguments |-> arguments]

\* The requests of a run.  The first nine are well-formed; then come an
\* unknown tool and arguments that a validator turns down.
CallToolRequests ==
  << CallToolRequest(ToolConfig,
       [NoArguments EXCEPT !.configPath = Str(join(AppDir, WebpackConfigName))]),
     CallToolRequest(ToolConfig,
       [NoArguments EXCEPT !.configPath = Str(join(GoneDir, WebpackConfigName))]),
     CallToolRequest(ToolNextjs, [NoArguments EXCEPT !.projectDir = Str(AppDir)]),
     CallToolRequest(ToolNextjs,
       [NoArguments EXCEPT !.projectDir = Str(LibDir), !.outputDir = Str(AppDir),
                           !.generateReport = Bool(FALSE)]),
     CallToolRequest(ToolNextjs,
       [NoArguments EXCEPT !.projectDir = Str(OutDir)]),
     CallToolRequest(ToolStats,
       [NoArguments EXCEPT !.statsFile = Str(join(AppDir, StatsJsonName))]),
     CallToolRequest(ToolStats,
       [NoArguments EXCEPT !.statsFile = Str(join(AppDir, StatsJsonName)),
                           !.outputDir = Str(OutDir), !.generateReport = Bool(FALSE),
                           !.port = Num(9000)]),
     CallToolRequest(ToolStats,
       [NoArguments EXCEPT !.statsFile = Str(join(AppDir, StatsTxtName)),
                           !.outputDir = Str(GoneDir)]),
     CallToolRequest(ToolStats,
       [NoArguments EXCEPT !.statsFile = Str(join(LibDir, StatsJsonName)),
                           !.generateReport = Bool(FALSE)]),
     CallToolRequest("analyze_rollup_stats",
       [NoArguments EXCEPT !.statsFile = Str(join(AppDir, StatsJsonName))]),
     CallToolRequest(ToolStats, [NoArguments EXCEPT !.statsFile = Num(7)]),
     CallToolRequest(ToolConfig, NoArguments),
     CallToolRequest(ToolConfig,
       [NoArguments EXCEPT !.configPath = Str(join(AppDir, WebpackConfigName)),
                           !.port = Str(<<"9","0","0","0">>)]),
     CallToolRequest(ToolNextjs, Null) >>

\* The arguments as a handler reads them: a path or Absent for each string,
\* "absent", "true" or "false" for generateReport, and the port as a number,
\* 0 when none is given (args.port || 8888 treats the two alike)
Request(tool, statsFile, configPath, projectDir, outputDir, generateReport, port) ==
  [tool |-> tool, statsFile |-> statsFile, configPath |-> configPath,
   projectDir |-> projectDir, outputDir |-> outputDir,
   generateReport |-> generateReport, port |-> port]

argsOf(request) ==
  LET args == request.arguments
      given(k, none) == IF Get(args, k).t = "string" THEN Get(args, k).v ELSE none
  IN Request(request.name,
             given("statsFile", NoPath), given("configPath", NoPath),
             given("projectDir", Absent), given("outputDir", Absent),
             IF Get(args, "generateReport").t # "boolean" THEN "absent"
               ELSE IF Get(args, "generateReport").v THEN "true" ELSE "false",
             IF Get(args, "port").t = "number" THEN Get(args, "port").v ELSE 0)

\* As generateReportOf, for args.generateReport === true
generateReportIfTrue(args) == args.generateReport = "true"

\* args.generateReport !== false
generateReportOf(args) == args.generateReport # "false"

\* args.port || 8888
DefaultPort == 8888
portOf(args) == IF args.port # 0 THEN args.port ELSE DefaultPort

\* path.join(outputDir, 'report.html')
ReportName == <<"r","e","p","o","r","t",".","h","t","m","l">>
\* `http://localhost:${port}`
serverUrlOf(port) == <<"h","t","t","p",":","/","/","l","o","c","a","l","h","o","s","t",":">> \o numToString(port)

\* --- what the handlers read
\* The text of a file: JSON text of a value, or text that is no JSON
JsonText(value) == [json |-> TRUE, value |-> value]
NoJson == [json |-> FALSE, value |-> Undef]

\* JSON.parse(text): the value, or Thrown (a SyntaxError)
JSONparse(text) == IF text.json THEN text.value ELSE Thrown

\* the document of the second scenario of the specification
BuiltStats ==
  Stats(Arr(<<Asset(mainjs, Num(1000), Undef)>>), Undef,
        Arr(<<SizedChunk(1), SizedChunk(2)>>),
        Mapping(<<[name |-> NameMain,
                   value |-> Entrypoint(Undef, Arr(<<EntryAsset(Num(400))>>))]>>),
        Undef)

\* fs.readFile(statsFilePath) for the stats files that are there
statsContentAt(p) == IF dirname(p) = AppDir THEN JsonText(BuiltStats) ELSE NoJson

\* What a build leaves at <outputDir>/stats.json: nothing, a file that cannot
\* be read, or a file with some text
NotGenerated == [exists |-> FALSE, readable |-> FALSE, text |-> NoJson]
Generated(readable, text) == [exists |-> TRUE, readable |-> readable, text |-> text]
GeneratedStats ==
  { NotGenerated, Generated(FALSE, NoJson), Generated(TRUE, NoJson),
    Generated(TRUE, JsonText(Null)), Generated(TRUE, JsonText(BuiltStats)) }

\* --- an invocation
\* The result a handler returns: the fields of its payload, and isError
NoResponse ==
  [success |-> FALSE, isError |-> FALSE, message |-> "",
   reportPath |-> Null, serverUrl |-> Null, metrics |-> Null]

\* The result of the try block
SuccessResponse(tool, args, outputDir, metrics) ==
  [success |-> TRUE, isError |-> FALSE,
   message |-> CASE tool = ToolStats -> "Webpack stats analyzed successfully."
                 [] tool = ToolConfig -> "Webpack build analyzed successfully."
                 [] tool = ToolNextjs -> "Next.js build analyzed successfully.",
   reportPath |-> IF generateReportOf(args) THEN Str(join(outputDir, ReportName)) ELSE Null,
   serverUrl |-> IF ~generateReportOf(args) THEN Str(serverUrlOf(portOf(args))) ELSE Null,
   metrics |-> metrics]

\* The result of the catch block
ErrorResponse(tool) ==
  [success |-> FALSE, isError |-> TRUE,
   message |-> CASE tool = ToolStats -> "Error analyzing webpack stats: "
                 [] tool = ToolConfig -> "Error analyzing webpack config: "
                 [] tool = ToolNextjs -> "Error analyzing Next.js build: ",
   reportPath |-> Null, serverUrl |-> Null, metrics |-> Null]

\* An invocation: the request it came with (its place in CallToolRequests),
\* the error the dispatcher rejected it with, where its handler stands, the
\* locals the handler has set, the failure it has met, and its result
NoCall ==
  [pc |-> "idle", request |-> 0, rejection |-> "none",
   args |-> Request(Absent, NoPath, NoPath, Absent, Absent, "absent", 0),
   outputDir |-> Absent, tempConfigPath |-> NoPath, stats |-> Undef,
   failure |-> "none", response |-> NoResponse]

\* An external process: the file it is started on, whether it has read it,
\* the configuration file named by the script it read, and the invocation
\* that wrote the configuration it has loaded (0: none loaded).  What a
\* process has read ends with it.
NoChild ==
  [kind |-> "none", status |-> "none", input |-> NoPath, read |-> FALSE,
   configPath |-> NoPath, config |-> 0, code |-> 0]
ChildOn(kind, input) ==
  [kind |-> kind, status |-> "running", input |-> input, read |-> FALSE,
   configPath |-> NoPath, config |-> 0, code |-> 0]

\* --- the cleanup
\* What the cleanup does, in the order it does it: a kill of a handle, the
\* call of server.close(), its settling, process.exit; threw tells that the
\* kill threw or the close was rejected
Event(kind, handle, threw) == [kind |-> kind, handle |-> handle, threw |-> threw]

\* The server before any signal.  registry is the registry as the last
\* signal found it, log what the cleanup started by that signal has done,
\* with the exit at its end once the process has exited, code the exit code
NotShutDown ==
  [pc |-> "serving", registry |-> {}, log |-> <<>>, code |-> -1]

engineVars == <<stats, op, arg, result>>
serverVars == <<calls, files, children, runningProcesses, shutdown>>

\* The server before any tool call
ServerIdle ==
  /\ calls = [c \in CallIds |-> NoCall]
  /\ files = [p \in TempPaths |-> NoFile]
  /\ children = [c \in CallIds |-> NoChild]
  /\ runningProcesses = {}
  /\ shutdown = NotShutDown

(***************************************************************************)
(* The engine as a state machine: a document is given, then one of the     *)
(* methods is called on it and returns.                                    *)
(***************************************************************************)
Init ==
  /\ stats \in Docs
  /\ op = "none"
  /\ arg = Undef
  /\ result = Undef
  /\ ServerIdle

\* extractMetrics(stats)
ExtractMetrics ==
  /\ op = "none"
  /\ op' = "extractMetrics"
  /\ result' = extractMetrics(stats)
  /\ stats' = documentAfter(stats)
  /\ UNCHANGED arg
  /\ UNCHANGED serverVars

\* calculateChunkSize(chunk, stats) for an entry of stats.chunks, as the sort
\* comparator and the largestChunks mapping call it
CalculateChunkSize ==
  /\ op = "none"
  /\ stats.t \notin {"undefined", "null"}
  /\ IsArray(Get(stats, "chunks"))
  /\ \E i \in 1..Len(Get(stats, "chunks").v) :
       /\ arg' = Get(stats, "chunks").v[i]
       /\ result' = calculateChunkSize(Get(stats, "chunks").v[i], stats)
  /\ op' = "calculateChunkSize"
  /\ UNCHANGED stats
  /\ UNCHANGED serverVars

\* getModuleType(module.name || '') for an entry of stats.modules that passes
\* the filter, as the largestModules mapping calls it
GetModuleType ==
  /\ op = "none"
  /\ stats.t \notin {"undefined", "null"}
  /\ IsArray(Get(stats, "modules"))
  /\ \E i \in 1..Len(Get(stats, "modules").v) :
       /\ isValidModule(Get(stats, "modules").v[i])
       /\ arg' = Or(Get(Get(stats, "modules").v[i], "name"), Str(<<>>))
       /\ result' = getModuleType(Or(Get(Get(stats, "modules").v[i], "name"),
                                      Str(<<>>)))
  /\ op' = "getModuleType"
  /\ UNCHANGED stats
  /\ UNCHANGED serverVars

Next == ExtractMetrics \/ CalculateChunkSize \/ GetModuleType

Spec == Init /\ [][Next]_vars

(***************************************************************************)
(* The server as a state machine.  Handlers are asynchronous: an action is *)
(* the stretch of a handler that runs between two of its awaits, and the   *)
(* stretches of different invocations interleave.  An external process     *)
(* reads the files it was started on in steps of its own.  The model       *)
(* follows handlers and processes for as long as the server runs.          *)
(***************************************************************************)
\* The switch of the CallTool request handler: the McpError it throws, "none"
\* when it calls a handler
dispatch(request) ==
  CASE request.name = ToolStats ->
         IF isValidAnalyzeWebpackBuildArgs(request.arguments) THEN "none" ELSE "InvalidParams"
    [] request.name = ToolConfig ->
         IF isValidAnalyzeWebpackConfigArgs(request.arguments) THEN "none" ELSE "InvalidParams"
    [] request.name = ToolNextjs ->
         IF isValidAnalyzeNextjsBuildArgs(request.arguments) THEN "none" ELSE "InvalidParams"
    [] OTHER -> "MethodNotFound"

\* The CallTool request handler rejects a request or dispatches it to its
\* handler; invocations are numbered in the order of their arrival
CallTool(c, i) ==
  /\ shutdown.pc # "exited"
  /\ calls[c].pc = "idle"
  /\ \A d \in 1..(c - 1) : calls[d].pc # "idle"
  /\ LET request == CallToolRequests[i]
     IN calls' = [calls EXCEPT ![c] =
          IF dispatch(request) # "none"
            THEN [NoCall EXCEPT !.pc = "rejected", !.request = i,
                                !.rejection = dispatch(request)]
            ELSE [NoCall EXCEPT !.pc = "start", !.request = i,
                                !.args = argsOf(request)]]
  /\ UNCHANGED <<files, children, runningProcesses>>
  /\ UNCHANGED <<engineVars, shutdown>>

\* As Fails, with no catch around the body: the exception leaves the handler
Throws(c, failure) == [calls EXCEPT ![c].pc = "thrown", ![c].failure = failure]

\* The handler fails: its catch block returns the error result
Fails(c, failure) ==
  [calls EXCEPT ![c].pc = "done", ![c].failure = failure,
                ![c].response = ErrorResponse(calls[c].args.tool)]

\* The handler returns the result of its try block
Succeeds(c, metrics, failure) ==
  [calls EXCEPT ![c].pc = "done", ![c].failure = failure,
                ![c].response = SuccessResponse(calls[c].args.tool, calls[c].args,
                                                calls[c].outputDir, metrics)]

\* The output directory a handler settles on: args.outputDir when given,
\* else the default; Absent when args.outputDir is given and not valid
outputDirOf(args, default) ==
  IF args.outputDir # Absent
    THEN IF validatePath(args.outputDir, "directory").valid
           THEN validatePath(args.outputDir, "directory").resolvedPath
           ELSE Absent
    ELSE default

\* As metricsOfGenerated, with no try/catch around the reading: Thrown when
\* the file cannot be read or parsed
metricsOfGeneratedNoCatch(generated) ==
  IF ~generated.exists THEN Null
  ELSE IF ~generated.readable \/ IsThrown(JSONparse(generated.text)) THEN Thrown
  ELSE extractMetrics(JSONparse(generated.text))

\* "Try to read the generated stats file": metrics stays null when the file
\* is not there or the reading throws
metricsOfGenerated(generated) ==
  IF ~generated.exists THEN Null
  ELSE IF ~generated.readable \/ IsThrown(JSONparse(generated.text)) THEN Null
  ELSE extractMetrics(JSONparse(generated.text))

\* What kept the metrics from being read, "none" when they were
troubleOf(generated) ==
  CASE ~generated.exists -> "stats.json missing"
    [] ~generated.readable -> "stats.json unreadable"
    [] IsThrown(JSONparse(generated.text)) -> "stats.json unparsable"
    [] OTHER -> "none"

\* The return of a build handler with the metrics it has in hand: an
\* exception thrown while they were read reaches the outer catch
ReturnsWith(c, metrics, generated) ==
  IF IsThrown(metrics)
    THEN Fails(c, troubleOf(generated))
    ELSE [Succeeds(c, metrics, troubleOf(generated))
            EXCEPT ![c].stats = IF troubleOf(generated) = "none"
                                  THEN JSONparse(generated.text) ELSE Undef]

\* The end of a build handler once its command has succeeded
ReturnsAfterBuild(c, generated) ==
  ReturnsWith(c, metricsOfGenerated(generated), generated)

\* analyzeWebpackConfig, up to the name of its temporary configuration
AnalyzeWebpackConfigStart(c) ==
  /\ shutdown.pc # "exited"
  /\ calls[c].pc = "start"
  /\ calls[c].args.tool = ToolConfig
  /\ LET args == calls[c].args
         configValidation == validatePath(args.configPath, "file")
         outputDir == outputDirOf(args, dirname(configValidation.resolvedPath))
     IN calls' =
          IF ~configValidation.valid \/ outputDir = Absent
            THEN Fails(c, "unresolvable path")
            ELSE [calls EXCEPT ![c].pc = "write",
                               ![c].outputDir = outputDir,
                               ![c].tempConfigPath = join(outputDir, TempWebpackConfigName)]
  /\ UNCHANGED <<files, children, runningProcesses>>
  /\ UNCHANGED <<engineVars, shutdown>>

\* await fs.writeFile(tempConfigPath, analyzerConfig, 'utf-8')
AnalyzeWebpackConfigWrite(c) ==
  /\ shutdown.pc # "exited"
  /\ calls[c].pc = "write"
  /\ calls[c].args.tool = ToolConfig
  /\ files' = [files EXCEPT ![calls[c].tempConfigPath] = FileOf(c, NoPath)]
  /\ calls' = [calls EXCEPT ![c].pc = "exec"]
  /\ UNCHANGED <<children, runningProcesses>>
  /\ UNCHANGED <<engineVars, shutdown>>

\* execAsync(`npx webpack --config ${tempConfigPath}`) starts the build
AnalyzeWebpackConfigExec(c) ==
  /\ shutdown.pc # "exited"
  /\ calls[c].pc = "exec"
  /\ calls[c].args.tool = ToolConfig
  /\ children' = [children EXCEPT ![c] = ChildOn("webpack", calls[c].tempConfigPath)]
  /\ calls' = [calls EXCEPT ![c].pc = "await"]
  /\ UNCHANGED <<files, runningProcesses>>
  /\ UNCHANGED <<engineVars, shutdown>>

\* The build has ended: the handler reads the stats the build has left and
\* returns its result, or the error result when the command failed
AnalyzeWebpackConfigReturn(c, generated) ==
  /\ shutdown.pc # "exited"
  /\ calls[c].pc = "await"
  /\ calls[c].args.tool = ToolConfig
  /\ children[c].status = "exited"
  /\ calls' = IF children[c].code = 0
                THEN ReturnsAfterBuild(c, generated)
                ELSE Fails(c, "failed command")
  /\ UNCHANGED <<files, children, runningProcesses>>
  /\ UNCHANGED <<engineVars, shutdown>>

\* analyzeNextjsBuild, up to the name of its temporary configuration
AnalyzeNextjsBuildStart(c) ==
  /\ shutdown.pc # "exited"
  /\ calls[c].pc = "start"
  /\ calls[c].args.tool = ToolNextjs
  /\ LET args == calls[c].args
         projectDirValidation == validatePath(args.projectDir, "directory")
         projectDir == projectDirValidation.resolvedPath
         isNextProject == projectDir \in NextProjects
         isESM == projectDir \in EsmProjects
         outputDir == outputDirOf(args, projectDir)
         tempConfigName == IF isESM THEN TempNextConfigMjsName ELSE TempNextConfigName
     IN calls' =
          IF ~projectDirValidation.valid THEN Fails(c, "unresolvable path")
          ELSE IF ~isNextProject THEN Fails(c, "not a Next.js project")
          ELSE IF outputDir = Absent THEN Fails(c, "unresolvable path")
          ELSE [calls EXCEPT ![c].pc = "write",
                             ![c].outputDir = outputDir,
                             ![c].tempConfigPath = join(outputDir, tempConfigName)]
  /\ UNCHANGED <<files, children, runningProcesses>>
  /\ UNCHANGED <<engineVars, shutdown>>

\* await fs.writeFile(tempConfigPath, analyzerConfig, 'utf-8')
AnalyzeNextjsBuildWrite(c) ==
  /\ shutdown.pc # "exited"
  /\ calls[c].pc = "write"
  /\ calls[c].args.tool = ToolNextjs
  /\ files' = [files EXCEPT ![calls[c].tempConfigPath] = FileOf(c, NoPath)]
  /\ calls' = [calls EXCEPT ![c].pc = "script"]
  /\ UNCHANGED <<children, runningProcesses>>
  /\ UNCHANGED <<engineVars, shutdown>>

\* await fs.writeFile(buildScriptPath, buildScript, 'utf-8'), and the chmod:
\* the script carries NEXT_CONFIG_FILE: tempConfigPath
AnalyzeNextjsBuildWriteScript(c) ==
  /\ shutdown.pc # "exited"
  /\ calls[c].pc = "script"
  /\ calls[c].args.tool = ToolNextjs
  /\ files' = [files EXCEPT ![join(calls[c].outputDir, BuildScriptName)] =
                              FileOf(c, calls[c].tempConfigPath)]
  /\ calls' = [calls EXCEPT ![c].pc = "exec"]
  /\ UNCHANGED <<children, runningProcesses>>
  /\ UNCHANGED <<engineVars, shutdown>>

\* execAsync(`node ${buildScriptPath}`) starts the build
AnalyzeNextjsBuildExec(c) ==
  /\ shutdown.pc # "exited"
  /\ calls[c].pc = "exec"
  /\ calls[c].args.tool = ToolNextjs
  /\ children' = [children EXCEPT ![c] =
                    ChildOn("next", join(calls[c].outputDir, BuildScriptName))]
  /\ calls' = [calls EXCEPT ![c].pc = "await"]
  /\ UNCHANGED <<files, runningProcesses>>
  /\ UNCHANGED <<engineVars, shutdown>>

\* The build has ended: the handler reads the stats the build has left and
\* returns its result, or the error result when the command failed
AnalyzeNextjsBuildReturn(c, generated) ==
  /\ shutdown.pc # "exited"
  /\ calls[c].pc = "await"
  /\ calls[c].args.tool = ToolNextjs
  /\ children[c].status = "exited"
  /\ calls' = IF children[c].code = 0
                THEN ReturnsAfterBuild(c, generated)
                ELSE Fails(c, "failed command")
  /\ UNCHANGED <<files, children, runningProcesses>>
  /\ UNCHANGED <<engineVars, shutdown>>

\* analyzeWebpackStats, up to the parsed stats and the report path
AnalyzeWebpackStatsStart(c) ==
  /\ shutdown.pc # "exited"
  /\ calls[c].pc = "start"
  /\ calls[c].args.tool = ToolStats
  /\ LET args == calls[c].args
         statsFileValidation == validatePath(args.statsFile, "file")
         outputDir == outputDirOf(args, dirname(statsFileValidation.resolvedPath))
         parsed == JSONparse(statsContentAt(statsFileValidation.resolvedPath))
     IN calls' =
          IF ~endsWith(args.statsFile.name, <<".","j","s","o","n">>)
            THEN Fails(c, "bad file extension")
          ELSE IF ~statsFileValidation.valid \/ outputDir = Absent
            THEN Fails(c, "unresolvable path")
          ELSE IF IsThrown(parsed) THEN Fails(c, "JSON parse error")
          ELSE [calls EXCEPT ![c].pc = "write", ![c].outputDir = outputDir,
                             ![c].stats = parsed]
  /\ UNCHANGED <<files, children, runningProcesses>>
  /\ UNCHANGED <<engineVars, shutdown>>

\* mkdir(tempDir) and await fs.writeFile(tempStatsPath, ...), in either mode
AnalyzeWebpackStatsWrite(c) ==
  /\ shutdown.pc # "exited"
  /\ calls[c].pc = "write"
  /\ calls[c].args.tool = ToolStats
  /\ files' = [files EXCEPT ![join(calls[c].outputDir, TempStatsName)] =
                              FileOf(c, NoPath)]
  /\ calls' = [calls EXCEPT ![c].pc = "exec"]
  /\ UNCHANGED <<children, runningProcesses>>
  /\ UNCHANGED <<engineVars, shutdown>>

\* generateReport: execAsync starts the static report generator and the
\* handler waits for it
AnalyzeWebpackStatsExecStatic(c) ==
  /\ shutdown.pc # "exited"
  /\ calls[c].pc = "exec"
  /\ calls[c].args.tool = ToolStats
  /\ generateReportOf(calls[c].args)
  /\ children' = [children EXCEPT ![c] =
                    ChildOn("static", join(calls[c].outputDir, TempStatsName))]
  /\ calls' = [calls EXCEPT ![c].pc = "await"]
  /\ UNCHANGED <<files, runningProcesses>>
  /\ UNCHANGED <<engineVars, shutdown>>

\* Server mode: exec starts the analyzer server, its handle is added to the
\* registry, and the handler returns its result without waiting
AnalyzeWebpackStatsExecServer(c) ==
  /\ shutdown.pc # "exited"
  /\ calls[c].pc = "exec"
  /\ calls[c].args.tool = ToolStats
  /\ ~generateReportOf(calls[c].args)
  /\ children' = [children EXCEPT ![c] =
                    ChildOn("server", join(calls[c].outputDir, TempStatsName))]
  /\ runningProcesses' = runningProcesses \cup {c}
  /\ calls' = Succeeds(c, extractMetrics(calls[c].stats), "none")
  /\ UNCHANGED files
  /\ UNCHANGED <<engineVars, shutdown>>

\* The report generator has ended: the temporary directory is removed and the
\* result returned, or the error result when the command failed
AnalyzeWebpackStatsReturn(c) ==
  /\ shutdown.pc # "exited"
  /\ calls[c].pc = "await"
  /\ calls[c].args.tool = ToolStats
  /\ children[c].status = "exited"
  /\ IF children[c].code = 0
       THEN /\ files' = [files EXCEPT ![join(calls[c].outputDir, TempStatsName)] = NoFile]
            /\ calls' = Succeeds(c, extractMetrics(calls[c].stats), "none")
       ELSE /\ calls' = Fails(c, "failed command")
            /\ UNCHANGED files
  /\ UNCHANGED <<children, runningProcesses>>
  /\ UNCHANGED <<engineVars, shutdown>>

\* An external process reads the file it was started on, as it is then; for
\* the webpack build that file is its configuration
ChildReadsInput(c) ==
  /\ shutdown.pc # "exited"
  /\ children[c].status = "running"
  /\ ~children[c].read
  /\ files[children[c].input].writer # 0
  /\ children' =
       [children EXCEPT
          ![c].read = TRUE,
          ![c].configPath = files[children[c].input].config,
          ![c].config = IF children[c].kind = "webpack"
                          THEN files[children[c].input].writer ELSE 0]
  /\ UNCHANGED <<calls, files, runningProcesses>>
  /\ UNCHANGED <<engineVars, shutdown>>

\* next build, started by the script, loads the configuration the script names
ChildReadsConfig(c) ==
  /\ shutdown.pc # "exited"
  /\ children[c].status = "running"
  /\ children[c].kind = "next"
  /\ children[c].read
  /\ children[c].config = 0
  /\ children' = [children EXCEPT ![c].config = files[children[c].configPath].writer]
  /\ UNCHANGED <<calls, files, runningProcesses>>
  /\ UNCHANGED <<engineVars, shutdown>>

\* An external process ends: with code 0 only after it has read its input
ChildExits(c, code) ==
  /\ shutdown.pc # "exited"
  /\ children[c].status = "running"
  /\ code = 0 => /\ children[c].read
                 /\ children[c].kind = "next" => children[c].config # 0
  /\ children' = [children EXCEPT ![c] = [NoChild EXCEPT !.kind = children[c].kind,
                                                        !.status = "exited",
                                                        !.code = code]]
  /\ UNCHANGED <<calls, files, runningProcesses>>
  /\ UNCHANGED <<engineVars, shutdown>>

InitServer ==
  /\ stats = Undef
  /\ op = "none"
  /\ arg = Undef
  /\ result = Undef
  /\ ServerIdle

NextServer ==
  \/ \E c \in CallIds, i \in 1..Len(CallToolRequests) : CallTool(c, i)
  \/ \E c \in CallIds : AnalyzeWebpackConfigStart(c)
  \/ \E c \in CallIds : AnalyzeWebpackConfigWrite(c)
  \/ \E c \in CallIds : AnalyzeWebpackConfigExec(c)
  \/ \E c \in CallIds, generated \in GeneratedStats : AnalyzeWebpackConfigReturn(c, generated)
  \/ \E c \in CallIds : AnalyzeNextjsBuildStart(c)
  \/ \E c \in CallIds : AnalyzeNextjsBuildWrite(c)
  \/ \E c \in CallIds : AnalyzeNextjsBuildWriteScript(c)
  \/ \E c \in CallIds : AnalyzeNextjsBuildExec(c)
  \/ \E c \in CallIds, generated \in GeneratedStats : AnalyzeNextjsBuildReturn(c, generated)
  \/ \E c \in CallIds : AnalyzeWebpackStatsStart(c)
  \/ \E c \in CallIds : AnalyzeWebpackStatsWrite(c)
  \/ \E c \in CallIds : AnalyzeWebpackStatsExecStatic(c)
  \/ \E c \in CallIds : AnalyzeWebpackStatsExecServer(c)
  \/ \E c \in CallIds : AnalyzeWebpackStatsReturn(c)
  \/ \E c \in CallIds : ChildReadsInput(c)
  \/ \E c \in CallIds : ChildReadsConfig(c)
  \/ \E c \in CallIds, code \in {0, 1} : ChildExits(c, code)

SpecServer == InitServer /\ [][NextServer]_vars

(***************************************************************************)
(* The cleanup registered for SIGINT and SIGTERM.  Its loop over the       *)
(* registry and its call of server.close() run without a break; the exit   *)
(* follows once the close has settled.                                     *)
(***************************************************************************)
\* The order in which the loop meets the handles of the registry.  A Set is
\* iterated in the order of its additions; the registry here keeps no order,
\* nothing the cleanup does depends on one, and the handles are met in the
\* order of their calls
RECURSIVE OrderOf(_)
OrderOf(handles) ==
  IF handles = {}
    THEN <<>>
    ELSE LET first == CHOOSE h \in handles : \A g \in handles : h <= g
         IN <<first>> \o OrderOf(handles \ {first})

\* As cleanupLog, with no try/catch in the loop: a kill that throws ends the
\* cleanup
cleanupLogNoCatch(order, throwing) ==
  LET firstThrow == IF \E i \in 1..Len(order) : order[i] \in throwing
                      THEN CHOOSE i \in 1..Len(order) :
                             /\ order[i] \in throwing
                             /\ \A j \in 1..(i - 1) : order[j] \notin throwing
                      ELSE 0
  IN IF firstThrow = 0
       THEN [i \in 1..Len(order) |-> Event("kill", order[i], FALSE)]
              \o <<Event("close", 0, FALSE)>>
       ELSE [i \in 1..firstThrow |-> Event("kill", order[i], i = firstThrow)]

\* for (const process of this.runningProcesses) { try { process.kill() }
\* catch { ... } }, then the call of this.server.close()
cleanupLog(order, throwing) ==
  [i \in 1..Len(order) |-> Event("kill", order[i], order[i] \in throwing)]
    \o <<Event("close", 0, FALSE)>>

\* SIGINT or SIGTERM arrives and cleanup, registered for both, runs up to its
\* await: the kills whose handles are in throwing throw
Signal(order, throwing) ==
  /\ shutdown.pc # "exited"
  /\ shutdown' = [shutdown EXCEPT
       !.pc = "closing",
       !.registry = runningProcesses,
       !.log = <<Event("signal", 0, FALSE)>> \o cleanupLog(order, throwing)]
  /\ UNCHANGED <<calls, files, children, runningProcesses>>
  /\ UNCHANGED engineVars

\* An awaited this.server.close() settles, resolved or rejected, and its
\* cleanup goes on to process.exit(0)
CloseSettles(rejected) ==
  /\ shutdown.pc = "closing"
  /\ shutdown' = [shutdown EXCEPT
       !.pc = "exited",
       !.code = 0,
       !.log = @ \o <<Event("settled", 0, rejected), Event("exit", 0, FALSE)>>]
  /\ UNCHANGED <<calls, files, children, runningProcesses>>
  /\ UNCHANGED engineVars

\* The requests that lead to the registry: those of analyze_webpack_stats
\* in server mode, for a stats file that can be analyzed
ServerModeRequests ==
  { i \in 1..Len(CallToolRequests) :
      /\ CallToolRequests[i].name = ToolStats
      /\ dispatch(CallToolRequests[i]) = "none"
      /\ argsOf(CallToolRequests[i]).statsFile = join(AppDir, StatsJsonName)
      /\ ~generateReportOf(argsOf(CallToolRequests[i])) }

ServerCloseSettles == \E rejected \in BOOLEAN : CloseSettles(rejected)

NextShutdown ==
  \/ \E c \in CallIds, i \in ServerModeRequests : CallTool(c, i)
  \/ \E c \in CallIds : AnalyzeWebpackStatsStart(c)
  \/ \E c \in CallIds : AnalyzeWebpackStatsWrite(c)
  \/ \E c \in CallIds : AnalyzeWebpackStatsExecServer(c)
  \/ \E c \in CallIds : ChildReadsInput(c)
  \/ \E c \in CallIds, code \in {0, 1} : ChildExits(c, code)
  \/ \E throwing \in SUBSET runningProcesses :
        Signal(OrderOf(runningProcesses), throwing)
  \/ \E rejected \in BOOLEAN : CloseSettles(rejected)

\* A close that is awaited settles
SpecShutdown ==
  InitServer /\ [][NextShutdown]_vars /\ WF_vars(ServerCloseSettles)

(***************************************************************************)
(* resolvePath and validatePath over a file system                         *)
(***************************************************************************)
\* process.cwd() and os.homedir() of the server
Cwd == <<"/","w">>
HomeDir == <<"/","h">>
ProjectSubdir == <<"D","e","s","k","t","o","p","/","w","e","b","p","a","c","k","-","a","n","a","l","y","z","e","r","-","m","c","p">>

\* path.isAbsolute (posix)
isAbsolute(p) == p # <<>> /\ Head(p) = "/"

\* The segments of a path: the stretches between its slashes
RECURSIVE segmentsOf(_)
segmentsOf(p) ==
  IF p = <<>> THEN <<>>
  ELSE LET i == indexOf(p, <<"/">>)
       IN IF i = -1 THEN <<p>>
          ELSE <<SubSeq(p, 1, i)>> \o segmentsOf(SubSeq(p, i + 2, Len(p)))

\* The segments of an absolute path without its ".", ".." and empty segments
RECURSIVE normalSegments(_, _)
normalSegments(done, rest) ==
  IF rest = <<>> THEN done
  ELSE IF Head(rest) \in {<<>>, <<".">>} THEN normalSegments(done, Tail(rest))
  ELSE IF Head(rest) = <<".", ".">>
    THEN normalSegments(IF done = <<>> THEN done ELSE SubSeq(done, 1, Len(done) - 1),
                        Tail(rest))
  ELSE normalSegments(Append(done, Head(rest)), Tail(rest))

RECURSIVE joinSegments(_)
joinSegments(segments) ==
  IF segments = <<>> THEN <<>>
  ELSE <<"/">> \o Head(segments) \o joinSegments(Tail(segments))

\* path.normalize of an absolute path
normalize(p) ==
  LET segments == normalSegments(<<>>, segmentsOf(p))
  IN IF segments = <<>> THEN <<"/">> ELSE joinSegments(segments)

\* path.resolve(base, p) for an absolute base: p itself when it is absolute
pathResolve(base, p) ==
  normalize(IF isAbsolute(p) THEN p ELSE base \o <<"/">> \o p)

\* What fs.access and fs.stat find at a path: nothing (ENOENT), a file, a
\* directory, or an entry that cannot be reached (EACCES)
EntryKinds == {"none", "file", "directory", "denied"}
entryAt(fs, p) == IF normalize(p) \in DOMAIN fs THEN fs[normalize(p)] ELSE "none"

\* What resolvePath completes with: the path it returns, or the Error it throws
Resolved(p) == [thrown |-> FALSE, path |-> p, message |-> ""]
ThrownError(message) == [thrown |-> TRUE, path |-> <<>>, message |-> message]

\* As resolvePath, trying the project directory before the workspace
resolvePathProjectFirst(inputPath, type, fs) ==
  LET workspacePath == pathResolve(Cwd, inputPath)
      projectPath == pathResolve(pathResolve(HomeDir, ProjectSubdir), inputPath)
  IN IF isAbsolute(inputPath)
       THEN IF entryAt(fs, inputPath) = type THEN Resolved(inputPath)
            ELSE ThrownError("Cannot access")
       ELSE IF entryAt(fs, projectPath) = type THEN Resolved(projectPath)
       ELSE IF entryAt(fs, workspacePath) = type THEN Resolved(workspacePath)
       ELSE ThrownError("Cannot find")

\* resolvePath(inputPath, type)
resolvePath(inputPath, type, fs) ==
  LET workspacePath == pathResolve(Cwd, inputPath)
      projectPath == pathResolve(pathResolve(HomeDir, ProjectSubdir), inputPath)
  IN IF isAbsolute(inputPath)
       THEN CASE entryAt(fs, inputPath) = type -> Resolved(inputPath)
              [] entryAt(fs, inputPath) = "none" -> ThrownError("Cannot access")
              [] entryAt(fs, inputPath) = "denied" -> ThrownError("EACCES")
              [] OTHER -> ThrownError("exists but is not")
       ELSE IF entryAt(fs, workspacePath) = type THEN Resolved(workspacePath)
       ELSE CASE entryAt(fs, projectPath) = type -> Resolved(projectPath)
              [] entryAt(fs, projectPath) \in {"none", "denied"} -> ThrownError("Cannot find")
              [] OTHER -> ThrownError("exists but is not")

\* validatePath(path, type) over a file system: {valid, resolvedPath}, or
\* {valid: false, error}; thrown tells that the call raised instead
validatePathOn(inputPath, type, fs) ==
  LET completion == resolvePath(inputPath, type, fs)
  IN IF completion.thrown
       THEN [valid |-> FALSE, resolvedPath |-> <<>>, error |-> completion.message,
             thrown |-> FALSE]
       ELSE [valid |-> TRUE, resolvedPath |-> completion.path, error |-> "",
             thrown |-> FALSE]

\* --- the paths asked for, and the file systems they are looked up in
InputPaths ==
  { <<"/","w","/","a",".","j","s","o","n">>, <<"/","w","/",".",".","/","w","/","a",".","j","s","o","n">>, <<"a",".","j","s","o","n">>, <<".","/","a",".","j","s","o","n">>, <<".",".","/","w","/","a",".","j","s","o","n">>, <<>> }
KnownPaths ==
  { pathResolve(base, p) :
      base \in {Cwd, pathResolve(HomeDir, ProjectSubdir)}, p \in InputPaths }
PathCases ==
  [inputPath : InputPaths, type : {"file", "directory"}, fs : [KnownPaths -> EntryKinds]]

InitPaths ==
  /\ stats = Undef
  /\ op = "none"
  /\ arg \in PathCases
  /\ result = Undef
  /\ ServerIdle

\* await resolvePath(inputPath, type)
ResolvePath ==
  /\ op = "none"
  /\ op' = "resolvePath"
  /\ result' = resolvePath(arg.inputPath, arg.type, arg.fs)
  /\ UNCHANGED <<stats, arg>>
  /\ UNCHANGED serverVars

\* await validatePath(path, type)
ValidatePath ==
  /\ op = "none"
  /\ op' = "validatePath"
  /\ result' = validatePathOn(arg.inputPath, arg.type, arg.fs)
  /\ UNCHANGED <<stats, arg>>
  /\ UNCHANGED serverVars

NextPaths == ResolvePath \/ ValidatePath

SpecPaths == InitPaths /\ [][NextPaths]_vars

(***************************************************************************)
(* What the claims speak of, stated independently of the engine            *)
(***************************************************************************)
ReportFields ==
  {"totalSize", "totalSizeByType", "entrypoints", "largestModules", "largestChunks",
   "moduleCount", "chunkCount", "assetCount", "buildTime", "performance"}

IsFullReport(r) == DOMAIN r = ReportFields

Returned == op = "extractMetrics"

\* The entries of a section of the document, none when it is no sequence
Section(k) ==
  IF stats.t = "object" /\ Get(stats, k).t = "array" THEN Get(stats, k).v ELSE <<>>

IsNullish(x) == x.t \in {"undefined", "null"}

\* A section that is absent, null or empty
AbsentOrEmpty(x) ==
  \/ IsNullish(x)
  \/ x.t = "array" /\ x.v = <<>>
  \/ x.t = "object" /\ "entries" \in DOMAIN x /\ x.entries = <<>>

\* The size of an entry as a number: 0 when it has none
SizeOf(x) ==
  IF x.t = "object" /\ "size" \in DOMAIN x /\ x.size.t = "number" THEN x.size.v ELSE 0

RECURSIVE SumSizes(_)
SumSizes(seq) ==
  IF seq = <<>> THEN 0
  ELSE (IF IsNullish(Head(seq)) THEN 0 ELSE SizeOf(Head(seq))) + SumSizes(Tail(seq))

Min(a, b) == IF a <= b THEN a ELSE b

(***************************************************************************)
(* C1                                                                      *)
(***************************************************************************)
\* C1: for every input document (null and undefined documents and sections of
\* unexpected shape included) extractMetrics returns and never raises: what
\* it returns is a full Metrics Report or exactly the error value.
C1_NeverThrows ==
  Returned => (IsFullReport(result) \/ result = ErrorReport)

\* A null document and a document with a non-string asset name have both
\* been answered with the error value.
C1_Witness ==
  /\ Returned
  /\ result = ErrorReport
  /\ \/ stats.t = "null"
     \/ \E i \in 1..Len(Section("assets")) :
          Get(Section("assets")[i], "name").t = "number"

AllSectionsAbsentOrEmpty ==
  /\ ~IsNullish(stats)
  /\ \A k \in {"assets", "modules", "chunks", "entrypoints"} :
       AbsentOrEmpty(Get(stats, k))

\* C3: a non-null document whose assets, modules, chunks and entrypoints are
\* each absent, null or empty gets a full report with zero totals and counts,
\* empty largestModules and largestChunks and an all-zero performance.
C3_EmptyDocumentReport ==
  (Returned /\ AllSectionsAbsentOrEmpty)
    => /\ IsFullReport(result)
       /\ result.totalSize = 0
       /\ result.moduleCount = 0
       /\ result.chunkCount = 0
       /\ result.assetCount = 0
       /\ result.largestModules = <<>>
       /\ result.largestChunks = <<>>
       /\ result.performance = [initialLoad |-> Zero, cacheEfficiency |-> Zero,
                                chunkFragmentation |-> Zero]

\* One of each: assets null, modules empty, chunks absent, entrypoints empty
C3_Witness ==
  /\ Returned
  /\ stats.t = "object"
  /\ Get(stats, "assets").t = "null"
  /\ Get(stats, "modules") = Arr(<<>>)
  /\ Get(stats, "chunks").t = "undefined"
  /\ Get(stats, "entrypoints") = Mapping(<<>>)
  /\ IsFullReport(result)

(***************************************************************************)
(* C4                                                                      *)
(***************************************************************************)
\* C4: when assets is a sequence, the report's totalSize is the sum of the
\* sizes of its non-null entries, an entry without a size counting 0.
C4_TotalSizeIsSum ==
  (Returned /\ IsFullReport(result) /\ stats.t = "object"
     /\ IsArray(Get(stats, "assets")))
    => result.totalSize = SumSizes(Section("assets"))

\* A null entry, an entry without size and a sized entry were summed
C4_Witness ==
  /\ Returned
  /\ IsFullReport(result)
  /\ Len(Section("assets")) = MaxAssets
  /\ \E i \in 1..MaxAssets : Section("assets")[i] = Null
  /\ \E i \in 1..MaxAssets : /\ Section("assets")[i] # Null
                             /\ Get(Section("assets")[i], "size") = Undef
  /\ result.totalSize = MaxSize

(***************************************************************************)
(* C5                                                                      *)
(***************************************************************************)
\* The key C5 gives an asset: the extension of its name, lowercased, without
\* the dot; "unknown" when there is none
LowercasedExtKey(asset) ==
  LET name == IF Get(asset, "name").t = "string" THEN Get(asset, "name").v ELSE <<>>
      ext == toLowerCase(extname(name))
  IN IF Len(ext) <= 1 THEN ExtUnknown ELSE SubSeq(ext, 2, Len(ext))

\* C5: every non-null asset's size is accumulated in totalSizeByType under
\* the lowercased extension of its name without the dot ("unknown" when there
\* is none), so assets whose extensions differ only in case share a key.
C5_KeyedByLowercasedExtension ==
  (Returned /\ IsFullReport(result))
    => LET assets == Section("assets")
           live == {i \in 1..Len(assets) : ~IsNullish(assets[i])}
           keys == {LowercasedExtKey(assets[i]) : i \in live}
           ofKey(k) == SelectSeq(assets,
                         LAMBDA a : ~IsNullish(a) /\ LowercasedExtKey(a) = k)
       IN /\ DOMAIN result.totalSizeByType = keys
          /\ \A k \in keys : result.totalSizeByType[k] = SumSizes(ofKey(k))

(***************************************************************************)
(* C6                                                                      *)
(***************************************************************************)
\* A module that is non-null and has a size above 0
Qualifies(module) == ~IsNullish(module) /\ SizeOf(module) > 0

\* C6: largestModules is the top-20 selection of the qualifying modules: its
\* length is min(20, their number), its sizes never increase, every entry is
\* a qualifying module, and no qualifying module left out is larger than an
\* included one.
C6_LargestModulesTop20 ==
  (Returned /\ IsFullReport(result) /\ stats.t = "object"
     /\ IsArray(Get(stats, "modules")))
    => LET valid == SelectSeq(Section("modules"), Qualifies)
           largest == result.largestModules
           sizes == {SizeOf(valid[i]) : i \in 1..Len(valid)}
           inLargest(s) == Len(SelectSeq(largest, LAMBDA e : e.size = s))
           inValid(s) == Len(SelectSeq(valid, LAMBDA m : SizeOf(m) = s))
       IN /\ Len(largest) = Min(TopModules, Len(valid))
          /\ \A i \in 1..(Len(largest) - 1) : largest[i].size >= largest[i + 1].size
          /\ \A i \in 1..Len(largest) : largest[i].size \in sizes
          /\ \A s \in sizes : inLargest(s) <= inValid(s)
          /\ \A s \in sizes :
               (\E i \in 1..Len(largest) : largest[i].size < s)
                 => inLargest(s) = inValid(s)

\* More than 20 qualifying modules of several sizes, and a smaller one left out
C6_Witness ==
  /\ Returned
  /\ IsFullReport(result)
  /\ Len(SelectSeq(Section("modules"), Qualifies)) > TopModules
  /\ Len(result.largestModules) = TopModules
  /\ result.largestModules[1].size > result.largestModules[TopModules].size
  /\ \E i \in 1..Len(Section("modules")) :
       /\ Qualifies(Section("modules")[i])
       /\ SizeOf(Section("modules")[i]) < result.largestModules[TopModules].size

(***************************************************************************)
(* C7                                                                      *)
(***************************************************************************)
\* The id of a chunk as largestChunks shows it
ChunkIdText(chunk) ==
  LET id == Get(chunk, "id")
  IN IF id.t = "number" THEN numToString(id.v)
     ELSE IF id.t = "string" /\ id.v # <<>> THEN id.v
     ELSE NameUnknown

ResolvedSize(chunk) == calculateChunkSize(chunk, stats).v

\* C7: largestChunks is the top-10 selection of the non-null chunks by
\* Resolved Size: its length is min(10, their number), each entry carries the
\* calculateChunkSize of its chunk, its sizes never increase, and no chunk
\* left out resolves to more than an included one.
C7_LargestChunksTop10 ==
  (Returned /\ IsFullReport(result) /\ stats.t = "object"
     /\ IsArray(Get(stats, "chunks")))
    => LET valid == SelectSeq(Section("chunks"), LAMBDA c : ~IsNullish(c))
           largest == result.largestChunks
           sizes == {ResolvedSize(valid[i]) : i \in 1..Len(valid)}
           inLargest(s) == Len(SelectSeq(largest, LAMBDA e : e.size = s))
           inValid(s) == Len(SelectSeq(valid, LAMBDA c : ResolvedSize(c) = s))
           sameInLargest(e) == Len(SelectSeq(largest, LAMBDA x : x.id = e.id /\ x.size = e.size))
           sameInValid(e) ==
             Len(SelectSeq(valid,
                 LAMBDA c : ChunkIdText(c) = e.id.v /\ ResolvedSize(c) = e.size))
       IN /\ Len(largest) = Min(TopChunks, Len(valid))
          /\ \A i \in 1..Len(largest) : sameInLargest(largest[i]) <= sameInValid(largest[i])
          /\ \A i \in 1..(Len(largest) - 1) : largest[i].size >= largest[i + 1].size
          /\ \A s \in sizes :
               (\E i \in 1..Len(largest) : largest[i].size < s)
                 => inLargest(s) = inValid(s)

\* More than 10 non-null chunks, one of them sized by its modules, several
\* sizes, and a smaller chunk left out
C7_Witness ==
  /\ Returned
  /\ IsFullReport(result)
  /\ Len(SelectSeq(Section("chunks"), LAMBDA c : ~IsNullish(c))) > TopChunks
  /\ Len(result.largestChunks) = TopChunks
  /\ result.largestChunks[1].size > result.largestChunks[TopChunks].size
  /\ \E i \in 1..Len(Section("chunks")) :
       LET c == Section("chunks")[i]
       IN ~IsNullish(c) /\ ResolvedSize(c) < result.largestChunks[TopChunks].size
  /\ \E i \in 1..Len(Section("chunks")) :
       LET c == Section("chunks")[i]
       IN /\ ~IsNullish(c)
          /\ Get(c, "size").t = "undefined"
          /\ \E k \in 1..TopChunks : result.largestChunks[k].id.v = ChunkIdText(c)

(***************************************************************************)
(* C8                                                                      *)
(***************************************************************************)
\* C8: moduleCount counts the modules that are non-null with size > 0,
\* chunkCount the non-null chunks, and assetCount every entry of assets,
\* null entries and entries of any size included.
C8_Counts ==
  (Returned /\ IsFullReport(result))
    => /\ result.moduleCount = Len(SelectSeq(Section("modules"), Qualifies))
       /\ result.chunkCount = Len(SelectSeq(Section("chunks"), LAMBDA c : ~IsNullish(c)))
       /\ result.assetCount = Len(Section("assets"))

\* Each section holds a null entry, modules also hold one that counts
C8_Witness ==
  /\ Returned
  /\ IsFullReport(result)
  /\ \E i \in 1..Len(Section("assets")) : IsNullish(Section("assets")[i])
  /\ \E i \in 1..Len(Section("modules")) : IsNullish(Section("modules")[i])
  /\ \E i \in 1..Len(Section("chunks")) : IsNullish(Section("chunks")[i])
  /\ result.assetCount = 3
  /\ result.moduleCount = 2
  /\ result.chunkCount = 2
  /\ result.totalSize = SumSizes(Section("assets"))

(***************************************************************************)
(* C9                                                                      *)
(***************************************************************************)
\* C9: an explicit numeric size has absolute precedence: for a chunk whose
\* size is a number, 0 included, calculateChunkSize returns that number,
\* whatever its modules sum to and whatever assets match it.
C9_ExplicitSizeWins ==
  (op = "calculateChunkSize" /\ arg.t = "object" /\ Get(arg, "size").t = "number")
    => result = Get(arg, "size")

\* An explicit size next to modules that sum to more, with matching assets
C9_Witness ==
  /\ op = "calculateChunkSize"
  /\ arg.t = "object"
  /\ Get(arg, "size") = Num(MaxSize)
  /\ IsArray(Get(arg, "modules"))
  /\ SumSizes(Get(arg, "modules").v) > MaxSize
  /\ Get(arg, "id") = id0
  /\ \E i \in 1..Len(Section("assets")) :
       /\ ~IsNullish(Section("assets")[i])
       /\ Get(Section("assets")[i], "chunks") = Arr(<<id0>>)
  /\ result = Num(MaxSize)

(***************************************************************************)
(* C10                                                                     *)
(***************************************************************************)
\* The primary name of a chunk: the first of names, else name
PrimaryName(chunk) ==
  LET names == Get(chunk, "names")
  IN IF names.t = "array" /\ Len(names.v) > 0 THEN names.v[1] ELSE Get(chunk, "name")

\* C10's association of an asset with a chunk
Associated(asset, chunk) ==
  \/ /\ Get(chunk, "id").t \in {"number", "string"}
     /\ Get(asset, "chunks").t = "array"
     /\ \E i \in 1..Len(Get(asset, "chunks").v) :
          LET c == Get(asset, "chunks").v[i]
          IN c.t = "string" /\ c.v = ChunkIdText(chunk)
  \/ /\ PrimaryName(chunk).t = "string"
     /\ Get(asset, "name").t = "string"
     /\ includes(Get(asset, "name").v, PrimaryName(chunk).v)

\* C10: for a chunk with no numeric size and no modules sequence,
\* calculateChunkSize returns the sum of the sizes of the top-level assets
\* associated with it by id or by primary name, each counted once, also when
\* the chunk carries only a names sequence (no id, no name).
C10_AssetFallbackSum ==
  (/\ op = "calculateChunkSize"
   /\ arg.t = "object"
   /\ Get(arg, "size").t # "number"
   /\ Get(arg, "modules").t # "array"
   /\ ~IsThrown(result))
    => result = Num(SumSizes(SelectSeq(Section("assets"),
                                       LAMBDA a : ~IsNullish(a) /\ Associated(a, arg))))

(***************************************************************************)
(* C11                                                                     *)
(***************************************************************************)
ClassifiedPath == op = "getModuleType" /\ arg.t = "string"

\* the positions at which node_modules occurs in p
MarkerStarts(p) ==
  {i \in 1..(Len(p) - Len(NodeModules) + 1) :
     SubSeq(p, i, i + Len(NodeModules) - 1) = NodeModules}

HasMarker(p) == MarkerStarts(p) # {}

\* the text of p after its first node_modules
AfterMarker(p) ==
  LET first == CHOOSE i \in MarkerStarts(p) : \A j \in MarkerStarts(p) : i <= j
  IN SubSeq(p, first + Len(NodeModules), Len(p))

\* the longest prefix of s without a path separator
LeadingSegment(s) ==
  SubSeq(s, 1, CHOOSE k \in 0..Len(s) :
                 /\ \A i \in 1..k : s[i] # "/"
                 /\ (k = Len(s) \/ s[k + 1] = "/"))

\* the first path segment after the first node_modules: what follows the
\* marker, and the separator that ends the marker's own segment, up to the
\* next separator
FirstSegmentAfterMarker(p) ==
  LET rest == AfterMarker(p)
  IN LeadingSegment(IF rest # <<>> /\ rest[1] = "/" THEN Tail(rest) ELSE rest)

\* C11: for every module path that contains "node_modules" and has a package
\* name after it, getModuleType returns "npm:" followed by the first path
\* segment after the first node_modules, whatever the extension of the path.
C11_NpmPackageName ==
  (ClassifiedPath /\ HasMarker(arg.v) /\ FirstSegmentAfterMarker(arg.v) # <<>>)
    => result = Str(<<"n","p","m",":">> \o FirstSegmentAfterMarker(arg.v))

(***************************************************************************)
(* C12                                                                     *)
(***************************************************************************)
\* C12: when the module path contains "node_modules" but no package name
\* follows it (the path ends with "node_modules" or "node_modules/"),
\* getModuleType returns exactly "npm".
C12_NpmFallback ==
  (ClassifiedPath /\ HasMarker(arg.v) /\ FirstSegmentAfterMarker(arg.v) = <<>>)
    => result = Str(<<"n","p","m">>)

(***************************************************************************)
(* C13                                                                     *)
(***************************************************************************)
\* the part of the last path component from its last dot on, lowercased;
\* empty when the component has no dot or only a leading one
LowercasedExtension(p) ==
  LET slashes == {i \in 1..Len(p) : p[i] = "/"}
      from == IF slashes = {} THEN 1
              ELSE 1 + CHOOSE i \in slashes : \A j \in slashes : j <= i
      dots == {i \in (from + 1)..Len(p) : p[i] = "."}
      dot == CHOOSE i \in dots : \A j \in dots : j <= i
  IN IF dots = {} THEN <<>>
     ELSE [i \in 1..(Len(p) - dot + 1) |-> toLowerCaseChar(p[dot + i - 1])]

LabelOfExtension(e) ==
  CASE e \in {<<".","j","s">>, <<".","j","s","x">>} -> TypeJavascript
    [] e \in {<<".","t","s">>, <<".","t","s","x">>} -> TypeTypescript
    [] e \in {<<".","c","s","s">>, <<".","s","c","s","s">>, <<".","l","e","s","s">>} -> TypeStyles
    [] e \in {<<".","s","v","g">>, <<".","p","n","g">>, <<".","j","p","g">>, <<".","j","p","e","g">>, <<".","g","i","f">>} -> TypeImage
    [] e = <<".","j","s","o","n">> -> TypeJson
    [] OTHER -> TypeOther

\* C13: for a module path without "node_modules", getModuleType returns
\* "unknown" for the empty path and otherwise the label of the file
\* extension compared case-insensitively: javascript, typescript, styles,
\* image, json, or other for any other or missing extension.  It returns one
\* of these labels for every such path and does not throw.
C13_ExtensionLabel ==
  (ClassifiedPath /\ ~HasMarker(arg.v))
    => /\ ~IsThrown(result)
       /\ result = Str(IF arg.v = <<>> THEN TypeUnknown
                       ELSE LabelOfExtension(LowercasedExtension(arg.v)))

\* a path with an upper-case image extension was classified as an image
C13_Witness ==
  /\ ClassifiedPath
  /\ ~HasMarker(arg.v)
  /\ LowercasedExtension(arg.v) = <<".","p","n","g">>
  /\ \E i \in 1..Len(arg.v) : arg.v[i] = "P"
  /\ result = Str(TypeImage)

(***************************************************************************)
(* C14                                                                     *)
(***************************************************************************)
\* The (name, entrypoint) pairs of the document, in document order
EntrypointPairs ==
  IF stats.t = "object" /\ Get(stats, "entrypoints").t = "object"
       /\ "entries" \in DOMAIN Get(stats, "entrypoints")
    THEN Get(stats, "entrypoints").entries ELSE <<>>

\* The sum of the sizes of the object entries of the assets of an entrypoint
ObjectAssetsSize(entrypoint) ==
  IF "assets" \in DOMAIN entrypoint /\ entrypoint.assets.t = "array"
    THEN SumSizes(entrypoint.assets.v) ELSE 0

\* entrypoint.chunks, or [] when absent
ChunksOrEmpty(entrypoint) ==
  IF "chunks" \in DOMAIN entrypoint /\ ~IsNullish(entrypoint.chunks)
    THEN entrypoint.chunks ELSE Arr(<<>>)

\* C14: for every (name, entrypoint) pair of the document a null entrypoint
\* produces no entry, and a non-null one produces entrypoints[name] =
\* {size, chunks} where size is the sum of the size of the object entries of
\* its assets (raw identifiers and entries without size count 0) and chunks
\* is entrypoint.chunks, or [] when absent; there are no other entries.
C14_EntrypointEntries ==
  (Returned /\ IsFullReport(result))
    => /\ DOMAIN result.entrypoints =
            {EntrypointPairs[i].name : i \in {j \in 1..Len(EntrypointPairs) :
                                              ~IsNullish(EntrypointPairs[j].value)}}
       /\ \A i \in 1..Len(EntrypointPairs) :
            ~IsNullish(EntrypointPairs[i].value)
              => result.entrypoints[EntrypointPairs[i].name] =
                   [size |-> ObjectAssetsSize(EntrypointPairs[i].value),
                    chunks |-> ChunksOrEmpty(EntrypointPairs[i].value)]

\* a null entrypoint left out next to one recorded without chunks and one
\* whose assets hold a sized object, a raw identifier, null and an object
\* without size
C14_Witness ==
  /\ Returned
  /\ IsFullReport(result)
  /\ \E i, j, k \in 1..Len(EntrypointPairs) :
       /\ IsNullish(EntrypointPairs[i].value)
       /\ EntrypointPairs[i].name \notin DOMAIN result.entrypoints
       /\ EntrypointPairs[j].value = Entrypoint(Undef, Undef)
       /\ result.entrypoints[EntrypointPairs[j].name] = [size |-> 0, chunks |-> Arr(<<>>)]
       /\ EntrypointPairs[k].value =
            Entrypoint(Arr(<<id0>>),
                       Arr(<<EntryAsset(Num(2)), vendor, Null, EntryAsset(Undef)>>))
       /\ result.entrypoints[EntrypointPairs[k].name] = [size |-> 2, chunks |-> Arr(<<id0>>)]

(***************************************************************************)
(* C15                                                                     *)
(***************************************************************************)
\* The positions of the non-null entrypoints named exactly main or index
InitialPositions ==
  {i \in 1..Len(EntrypointPairs) :
     /\ EntrypointPairs[i].name \in {<<"m","a","i","n">>, <<"i","n","d","e","x">>}
     /\ ~IsNullish(EntrypointPairs[i].value)}

\* C15: performance.initialLoad is entrypointSize / 1024 of the non-null
\* entrypoint named exactly "main" or "index"; when both are there, the one
\* later in the order of the document's entrypoints decides; when there is
\* none, initialLoad is 0.
C15_InitialLoad ==
  (Returned /\ IsFullReport(result))
    => result.performance.initialLoad =
         IF InitialPositions = {} THEN Frac(0, 1)
         ELSE LET last == CHOOSE i \in InitialPositions :
                            \A j \in InitialPositions : j <= i
              IN Frac(ObjectAssetsSize(EntrypointPairs[last].value), 1024)

\* main and index are both there with different sizes, "other" comes last,
\* and the later of the two decided
C15_Witness ==
  /\ Returned
  /\ IsFullReport(result)
  /\ Len(EntrypointPairs) = 3
  /\ InitialPositions = {1, 2}
  /\ ObjectAssetsSize(EntrypointPairs[1].value) > ObjectAssetsSize(EntrypointPairs[2].value)
  /\ ObjectAssetsSize(EntrypointPairs[2].value) > 0
  /\ ~IsNullish(EntrypointPairs[3].value)
  /\ ObjectAssetsSize(EntrypointPairs[3].value) = 0
  /\ result.performance.initialLoad =
       Frac(ObjectAssetsSize(EntrypointPairs[2].value), 1024)

(***************************************************************************)
(* C16                                                                     *)
(***************************************************************************)
\* the size recorded for an entrypoint of the report
RecordedSize(name) == result.entrypoints[name].size

\* min(((totalSize - mainBundleSize) / totalSize) * 100, 100) when
\* totalSize > 0 and chunkCount > 1, and 0 otherwise
CacheEfficiencyWith(mainBundleSize) ==
  IF result.totalSize > 0 /\ result.chunkCount > 1
    THEN LET share == Frac((result.totalSize - mainBundleSize) * 100, result.totalSize)
         IN IF FracLeq(share, Frac(100, 1)) THEN share ELSE Frac(100, 1)
    ELSE Frac(0, 1)

\* C16: cacheEfficiency is min(((totalSize - mainBundleSize) /
\* totalSize) * 100, 100) exactly when totalSize > 0 and chunkCount > 1, and 0
\* otherwise, where mainBundleSize is the size of entrypoint "main" if that
\* entrypoint exists, otherwise of "index" if it exists, otherwise 0.
C16_CacheEfficiency ==
  (Returned /\ IsFullReport(result))
    => result.performance.cacheEfficiency =
         CacheEfficiencyWith(
           IF <<"m","a","i","n">> \in DOMAIN result.entrypoints THEN RecordedSize(<<"m","a","i","n">>)
           ELSE IF <<"i","n","d","e","x">> \in DOMAIN result.entrypoints THEN RecordedSize(<<"i","n","d","e","x">>)
           ELSE 0)

(***************************************************************************)
(* C17                                                                     *)
(***************************************************************************)
\* The number of non-null entrypoints of the document
NonNullEntrypoints ==
  Cardinality({i \in 1..Len(EntrypointPairs) : ~IsNullish(EntrypointPairs[i].value)})

\* C17: chunkFragmentation is min(chunkCount / max(entrypointCount, 1), 100)
\* whenever chunkCount > 0 and 0 otherwise, where entrypointCount is the
\* number of entries recorded in the report's entrypoints, null entrypoints
\* not counted; it never exceeds 100.
C17_ChunkFragmentation ==
  (Returned /\ IsFullReport(result))
    => LET recorded == Cardinality(DOMAIN result.entrypoints)
           ratio == Frac(result.chunkCount,
                         IF recorded >= 1 THEN recorded ELSE 1)
       IN /\ recorded = NonNullEntrypoints
          /\ result.performance.chunkFragmentation =
               IF result.chunkCount > 0
                 THEN IF FracLeq(ratio, Frac(100, 1)) THEN ratio ELSE Frac(100, 1)
                 ELSE Frac(0, 1)
          /\ FracLeq(result.performance.chunkFragmentation, Frac(100, 1))

\* more than 100 chunks against a single, null entrypoint: capped at 100
C17_Witness ==
  /\ Returned
  /\ IsFullReport(result)
  /\ result.chunkCount > 100
  /\ Len(EntrypointPairs) = 1
  /\ NonNullEntrypoints = 0
  /\ result.performance.chunkFragmentation = Frac(100, 1)

(***************************************************************************)
(* C19                                                                     *)
(***************************************************************************)
\* An invocation of a build tool that has written its temporary configuration
\* and has not returned yet
InFlightBuild(c) ==
  /\ calls[c].args.tool \in {"analyze_webpack_config", "analyze_nextjs_build"}
  /\ calls[c].pc \in {"script", "exec", "await"}

\* C19: no two concurrently running build invocations have written their
\* temporary configuration file to the same path, and the configuration a
\* build process has loaded is the one its own invocation wrote, never one
\* written over it by another invocation.
C19_OwnTemporaryConfig ==
  /\ \A c, d \in CallIds :
       (c # d /\ InFlightBuild(c) /\ InFlightBuild(d))
         => calls[c].tempConfigPath # calls[d].tempConfigPath
  /\ \A c \in CallIds :
       (children[c].kind \in {"webpack", "next"} /\ children[c].config # 0)
         => children[c].config = c

(***************************************************************************)
(* C20                                                                     *)
(***************************************************************************)
\* C20: every external process started by a tool invocation (analyzer report
\* server, static report generator, webpack build, Next.js build) is in the
\* runningProcesses registry for as long as it runs.
C20_RunningProcessesRegistered ==
  \A c \in CallIds : children[c].status = "running" => c \in runningProcesses

(***************************************************************************)
(* C23                                                                     *)
(***************************************************************************)
\* The call was calculateChunkSize on a chunk without a numeric size and with
\* a modules sequence
SizedByModules ==
  /\ op = "calculateChunkSize"
  /\ arg.t = "object"
  /\ arg.size.t # "number"
  /\ arg.modules.t = "array"

\* C23: for every chunk with no numeric size but with a modules sequence,
\* calculateChunkSize returns the sum of the sizes of the modules, a null
\* module or a missing size counting 0, and the top-level assets play no
\* part: an empty modules sequence resolves to 0 even when assets match the
\* id or the name of the chunk.
C23_ModulesBeforeAssets ==
  SizedByModules => result = Num(SumSizes(arg.modules.v))

\* an empty modules sequence on a chunk whose id and name both match sized
\* assets of the document
C23_Witness ==
  /\ SizedByModules
  /\ arg.modules.v = <<>>
  /\ \E i \in 1..Len(Section("assets")) :
       /\ Associated(Section("assets")[i], arg)
       /\ SizeOf(Section("assets")[i]) > 0
  /\ result = Num(0)

(***************************************************************************)
(* C24                                                                     *)
(***************************************************************************)
\* The sum of the values of a mapping from keys to numbers
RECURSIVE SumValues(_)
SumValues(f) ==
  IF DOMAIN f = {} THEN 0
  ELSE LET k == CHOOSE x \in DOMAIN f : TRUE
       IN f[k] + SumValues([x \in DOMAIN f \ {k} |-> f[x]])

\* The one key of an asset: the extension of its name without the dot,
\* "unknown" when there is none
ExtensionKey(asset) ==
  LET name == IF Get(asset, "name").t = "string" THEN Get(asset, "name").v ELSE <<>>
      ext == extname(name)
  IN IF Len(ext) <= 1 THEN ExtUnknown ELSE SubSeq(ext, 2, Len(ext))

\* C24: for every document that yields a full report the values of
\* totalSizeByType partition totalSize: they sum to totalSize, and every
\* non-null asset adds its size to exactly one key.
C24_SizeByTypePartition ==
  (Returned /\ IsFullReport(result))
    => LET assets == Section("assets")
           byType == result.totalSizeByType
           under(k) == SelectSeq(assets,
                         LAMBDA a : ~IsNullish(a) /\ ExtensionKey(a) = k)
       IN /\ SumValues(byType) = result.totalSize
          /\ \A i \in 1..Len(assets) :
               ~IsNullish(assets[i]) => ExtensionKey(assets[i]) \in DOMAIN byType
          /\ \A k \in DOMAIN byType : byType[k] = SumSizes(under(k))

\* two keys, one of them shared by two sized assets
C24_Witness ==
  /\ Returned /\ IsFullReport(result)
  /\ \E i, j, l \in 1..Len(Section("assets")) :
       LET assets == Section("assets")
       IN /\ i # j
          /\ ~IsNullish(assets[i]) /\ ~IsNullish(assets[j]) /\ ~IsNullish(assets[l])
          /\ ExtensionKey(assets[i]) = ExtensionKey(assets[j])
          /\ ExtensionKey(assets[l]) # ExtensionKey(assets[i])
          /\ SizeOf(assets[i]) > 0 /\ SizeOf(assets[j]) > 0 /\ SizeOf(assets[l]) > 0
  /\ result.totalSize > 0

(***************************************************************************)
(* C25                                                                     *)
(***************************************************************************)
\* C25: for every document with non-negative sizes that yields a full report,
\* performance.cacheEfficiency lies between 0 and 100 inclusive, also when
\* the assets of the main (or index) entrypoint sum to more than the
\* top-level assets do.
C25_CacheEfficiencyRange ==
  (Returned /\ IsFullReport(result))
    => /\ FracLeq(Zero, result.performance.cacheEfficiency)
       /\ FracLeq(result.performance.cacheEfficiency, Frac(EfficiencyCap, 1))

(***************************************************************************)
(* C26                                                                     *)
(***************************************************************************)
\* C26: extractMetrics leaves its input document unchanged: after any call,
\* returning a report or the error value, the assets, modules, chunks and
\* entrypoints of the document have the entries they had before, in the same
\* order.
C26_DocumentUnchanged ==
  [][op' = "extractMetrics" => stats' = stats]_vars

\* a report whose largestModules and largestChunks are in another order than
\* the modules and the chunks the document still holds
C26_Witness ==
  /\ Returned /\ IsFullReport(result)
  /\ Len(result.largestModules) >= 2
  /\ Len(result.largestChunks) >= 2
  /\ result.largestModules[1].size > SizeOf(SelectSeq(Section("modules"), isValidModule)[1])
  /\ result.largestChunks[1].size
       > calculateChunkSize(SelectSeq(Section("chunks"), Truthy)[1], stats).v

(***************************************************************************)
(* C29                                                                     *)
(***************************************************************************)
\* The candidate exists with the type asked for
ExistsAs(p) == entryAt(arg.fs, p) = arg.type

WorkspaceCandidate == pathResolve(Cwd, arg.inputPath)
ProjectCandidate == pathResolve(HomeDir \o <<"/">> \o ProjectSubdir, arg.inputPath)

\* The path C29 has the input resolve to; <<"?">> when it has it fail
ExpectedPath ==
  IF isAbsolute(arg.inputPath)
    THEN IF ExistsAs(arg.inputPath) THEN arg.inputPath ELSE <<"?">>
    ELSE IF ExistsAs(WorkspaceCandidate) THEN WorkspaceCandidate
    ELSE IF ExistsAs(ProjectCandidate) THEN ProjectCandidate
    ELSE <<"?">>

\* C29: resolvePath tries its candidates in a fixed order: an absolute input
\* is returned unchanged if it exists with the requested type and fails
\* otherwise; a relative input resolves to the workspace candidate whenever
\* that exists with the requested type, otherwise to the project candidate if
\* that exists with the requested type, otherwise it fails.  validatePath
\* turns every failure into {valid: false, error} and never throws.
C29_CandidateOrder ==
  /\ op = "resolvePath"
       => IF ExpectedPath = <<"?">>
            THEN result.thrown
            ELSE ~result.thrown /\ result.path = ExpectedPath
  /\ op = "validatePath"
       => /\ ~result.thrown
          /\ IF ExpectedPath = <<"?">>
               THEN ~result.valid /\ result.error # ""
               ELSE result.valid /\ result.resolvedPath = ExpectedPath

\* a relative input whose workspace candidate is there with the other type
\* and whose project candidate is there with the type asked for
C29_Witness ==
  /\ op = "validatePath"
  /\ ~isAbsolute(arg.inputPath)
  /\ entryAt(arg.fs, WorkspaceCandidate) \in {"file", "directory"} \ {arg.type}
  /\ ExistsAs(ProjectCandidate)
  /\ WorkspaceCandidate # ProjectCandidate
  /\ result.valid
  /\ result.resolvedPath = ProjectCandidate

(***************************************************************************)
(* C22                                                                     *)
(***************************************************************************)
\* The arguments an invocation came with, as the client sent them
ArgumentsOf(c) == CallToolRequests[calls[c].request].arguments

\* The handler of the invocation has returned a success response
Succeeded(c) == calls[c].pc = "done" /\ calls[c].response.success

\* <outputDir>: the directory given, else the one of the file analyzed or the
\* project directory
OutputDirAsked(c) ==
  LET args == ArgumentsOf(c)
  IN IF args.outputDir.t = "string" THEN args.outputDir.v
     ELSE IF args.statsFile.t = "string" THEN args.statsFile.v.dir
     ELSE IF args.configPath.t = "string" THEN args.configPath.v.dir
     ELSE args.projectDir.v

\* http://localhost:<port>, with port 8888 when none is given
UrlAsked(c) ==
  IF ArgumentsOf(c).port.t = "undefined" THEN <<"h","t","t","p",":","/","/","l","o","c","a","l","h","o","s","t",":","8","8","8","8">>
  ELSE IF ArgumentsOf(c).port = Num(9000) THEN <<"h","t","t","p",":","/","/","l","o","c","a","l","h","o","s","t",":","9","0","0","0">>
  ELSE <<>>

KnownTools == {"analyze_webpack_stats", "analyze_webpack_config", "analyze_nextjs_build"}

\* The required path of a tool
RequiredPath(name) ==
  CASE name = "analyze_webpack_stats" -> "statsFile"
    [] name = "analyze_webpack_config" -> "configPath"
    [] name = "analyze_nextjs_build" -> "projectDir"

\* The field is there and is not of the type
WrongType(arguments, field, type) ==
  /\ field \in DOMAIN arguments
  /\ arguments[field].t \notin {"undefined", type}

\* Arguments that fail validation: the required path is missing or is no
\* string, or an optional field is of the wrong type
FailValidation(request) ==
  LET arguments == request.arguments
  IN \/ RequiredPath(request.name) \notin DOMAIN arguments
     \/ arguments[RequiredPath(request.name)].t # "string"
     \/ WrongType(arguments, "outputDir", "string")
     \/ WrongType(arguments, "port", "number")
     \/ \E field \in {"openBrowser", "generateReport", "includeRawStats"} :
          WrongType(arguments, field, "boolean")

\* No handler has run for the invocation: it has written no file, started no
\* process and returned nothing
Untouched(c) ==
  /\ \A p \in TempPaths : files[p].writer # c
  /\ children[c] = NoChild
  /\ c \notin runningProcesses
  /\ calls[c].response = NoResponse

\* C28: a call-tool request naming an unknown tool is rejected with a
\* MethodNotFound error, and a request for a known tool whose arguments fail
\* validation is rejected with an InvalidParams error; in both cases no
\* handler runs: nothing is written to disk, no process is spawned and the
\* registry is unchanged.
C28_RejectedBeforeAnyHandler ==
  /\ [](\A c \in CallIds :
          calls[c].request # 0
            => LET request == CallToolRequests[calls[c].request]
               IN /\ request.name \notin KnownTools
                       => calls[c].pc = "rejected" /\ calls[c].rejection = "MethodNotFound"
                  /\ (request.name \in KnownTools /\ FailValidation(request))
                       => calls[c].pc = "rejected" /\ calls[c].rejection = "InvalidParams"
                  /\ calls[c].pc = "rejected" => Untouched(c))
  /\ [][\A c \in CallIds :
          (calls[c].pc # "rejected" /\ calls'[c].pc = "rejected")
            => UNCHANGED <<files, children, runningProcesses>>]_vars

\* an unknown tool, and a known tool with a port that is no number, both
\* rejected
C28_Witness ==
  \E c, d \in CallIds :
    /\ calls[c].rejection = "MethodNotFound"
    /\ calls[d].rejection = "InvalidParams"
    /\ CallToolRequests[calls[d].request].arguments.t = "object"
    /\ CallToolRequests[calls[d].request].arguments.port.t = "string"

(***************************************************************************)
(* C30                                                                     *)
(***************************************************************************)
\* The build command of the invocation has succeeded and its handler has
\* returned
BuiltAndReturned(c) ==
  /\ calls[c].pc = "done"
  /\ children[c].kind \in {"webpack", "next"}
  /\ children[c].status = "exited"
  /\ children[c].code = 0

NoMetrics == {"stats.json missing", "stats.json unreadable", "stats.json unparsable"}

\* C30: failure to obtain metrics never turns a completed build into an error
\* response: in analyze_webpack_config and analyze_nextjs_build, when the
\* build command succeeded but the generated stats.json is missing,
\* unreadable or unparsable, the response has success true with metrics null;
\* and when extractMetrics returns the {error: ...} value, that value is
\* embedded as metrics in a success response.
C30_MetricsNeverFailTheBuild ==
  \A c \in CallIds :
    BuiltAndReturned(c)
      => /\ calls[c].response.success
         /\ ~calls[c].response.isError
         /\ calls[c].failure \in NoMetrics => calls[c].response.metrics = Null
         /\ calls[c].failure \notin NoMetrics
              => /\ calls[c].response.metrics = extractMetrics(calls[c].stats)
                 /\ \/ IsFullReport(calls[c].response.metrics)
                    \/ DOMAIN calls[c].response.metrics = {"error"}

\* one build whose stats.json was no JSON and one whose stats.json held null,
\* for which extractMetrics returns the error value
C30_Witness ==
  \E c, d \in CallIds :
    /\ BuiltAndReturned(c) /\ BuiltAndReturned(d)
    /\ calls[c].failure = "stats.json unparsable"
    /\ calls[c].response.success
    /\ calls[c].response.metrics = Null
    /\ calls[d].failure = "none"
    /\ calls[d].stats = Null
    /\ calls[d].response.success
    /\ DOMAIN calls[d].response.metrics = {"error"}

(***************************************************************************)
(* C27                                                                     *)
(***************************************************************************)
\* The handler of the invocation has returned
HasReturned(c) == calls[c].pc = "done"

\* The failures the handler lets reach its catch block, told from what the
\* client asked for and from what the external command did
BadFileExtension(c) ==
  /\ ArgumentsOf(c).statsFile.t = "string"
  /\ ~endsWith(ArgumentsOf(c).statsFile.v.name, <<".","j","s","o","n">>)
UnresolvablePath(c) ==
  LET arguments == ArgumentsOf(c)
  IN \/ arguments.statsFile.t = "string" /\ arguments.statsFile.v \notin ExistingFiles
     \/ arguments.configPath.t = "string" /\ arguments.configPath.v \notin ExistingFiles
     \/ arguments.projectDir.t = "string" /\ arguments.projectDir.v \notin ExistingDirs
     \/ arguments.outputDir.t = "string" /\ arguments.outputDir.v \notin ExistingDirs
JsonParseError(c) ==
  /\ ArgumentsOf(c).statsFile.t = "string"
  /\ ~statsContentAt(ArgumentsOf(c).statsFile.v).json
NotNextjsProject(c) ==
  /\ ArgumentsOf(c).projectDir.t = "string"
  /\ ArgumentsOf(c).projectDir.v \notin NextProjects
FailedCommand(c) ==
  /\ children[c].kind \in {"static", "webpack", "next"}
  /\ children[c].status = "exited"
  /\ children[c].code # 0
FailureReachingCatch(c) ==
  \/ BadFileExtension(c) \/ UnresolvablePath(c) \/ JsonParseError(c)
  \/ NotNextjsProject(c) \/ FailedCommand(c)

\* The error result: isError, with a payload of success false and a message
IsErrorResult(response) ==
  response.isError /\ ~response.success /\ response.message # ""

\* C27 as stated: once arguments have passed validation a tool handler never
\* throws: every failure inside it (bad file extension, unresolvable path,
\* JSON parse error, not a Next.js project, failed external command) ends in
\* a returned result with isError true whose payload has success false and a
\* message, and a result never has both success true and isError true.
C27_Original ==
  \A c \in CallIds :
    /\ calls[c].pc # "thrown"
    /\ HasReturned(c)
         => /\ (FailureReachingCatch(c) \/ calls[c].failure # "none")
                 => IsErrorResult(calls[c].response)
            /\ ~(calls[c].response.success /\ calls[c].response.isError)

\* C27, amended: the same, but for a failure to read or parse the stats.json
\* a build has left, which is caught where it happens and ends in a success
\* result.
C27_FailuresReturned ==
  \A c \in CallIds :
    /\ calls[c].pc # "thrown"
    /\ HasReturned(c)
         => /\ FailureReachingCatch(c) => IsErrorResult(calls[c].response)
            /\ (calls[c].failure \in NoMetrics /\ ~FailureReachingCatch(c))
                 => calls[c].response.success /\ ~calls[c].response.isError
            /\ ~(calls[c].response.success /\ calls[c].response.isError)

\* a handler that returned the error result for a stats file that is no
\* JSON, next to a build handler that returned a success although the
\* stats.json of the build could not be read
C27_Witness ==
  \E c, d \in CallIds :
    /\ HasReturned(c) /\ HasReturned(d)
    /\ JsonParseError(c) /\ ~BadFileExtension(c) /\ ~UnresolvablePath(c)
    /\ IsErrorResult(calls[c].response)
    /\ calls[d].failure = "stats.json unreadable"
    /\ calls[d].response.success

(***************************************************************************)
(* C21                                                                     *)
(***************************************************************************)
\* What the cleanup started by the last signal has done
SinceLastSignal == Tail(shutdown.log)

\* A signal has arrived
Signalled ==
  /\ shutdown.pc # "serving"
  /\ shutdown.log # <<>>
  /\ Head(shutdown.log).kind = "signal"

\* Kills of every handle the signal found in the registry, then the close,
\* then, once the process has exited, the exit, with code 0
InCleanupOrder ==
  LET done == SinceLastSignal
      handles == shutdown.registry
      n == Cardinality(handles)
  IN /\ Len(done) >= n + 1
     /\ \A i \in 1..n : done[i].kind = "kill"
     /\ {done[i].handle : i \in 1..n} = handles
     /\ done[n + 1].kind = "close"
     /\ \A i \in (n + 2)..Len(done) : done[i].kind \in {"settled", "exit"}
     /\ shutdown.pc = "exited"
          <=> /\ Len(done) > n + 1
              /\ done[Len(done)].kind = "exit"
     /\ shutdown.pc = "exited" => shutdown.code = 0

\* C21: on receipt of SIGINT or SIGTERM the server attempts kill on every
\* handle in the registry, then attempts to close the MCP server, then exits
\* with code 0, in that order; an exception thrown by one kill or by the
\* close keeps neither the remaining kills nor the close nor the exit from
\* happening.
C21_CleanupOnSignal ==
  /\ [](shutdown.pc # "serving" => Signalled /\ InCleanupOrder)
  /\ Signalled ~> (shutdown.pc = "exited" /\ shutdown.code = 0)

\* the process has exited after a cleanup whose first kill threw, whose
\* second kill was attempted all the same, and whose close was rejected
C21_Witness ==
  /\ shutdown.pc = "exited"
  /\ shutdown.code = 0
  /\ Cardinality(shutdown.registry) >= 2
  /\ SinceLastSignal[1].kind = "kill" /\ SinceLastSignal[1].threw
  /\ SinceLastSignal[2].kind = "kill"
  /\ \E i \in 1..Len(SinceLastSignal) :
       SinceLastSignal[i].kind = "settled" /\ SinceLastSignal[i].threw

====
